---- MODULE Spec2Model ----
(***************************************************************************)
(* loopback-component-storage: the filesystem provider                     *)
(* (src/unnamed/part_002) and the upload/download handler                  *)
(* (src/lib/storage-handler.js) as state machines.                         *)
(*                                                                         *)
(* Strings the code inspects character by character (names, the Range      *)
(* header) are sequences of one-character strings.                         *)
(***************************************************************************)
EXTENDS Integers, Sequences, FiniteSets, TLC

VARIABLES
  \* ---- name validator (SpecName) ----
  vnName,      \* the name handed to validateName
  vnSep,       \* path.sep of the platform the process runs on
  vnPc,        \* "call" | "ret"
  vnRet,       \* what validateName returned
  \* ---- filesystem provider (SpecFs) ----
  fsSep,       \* path.sep of the platform
  fsEntries,   \* the filesystem under root: a set of [path, kind] entries
  fc,          \* the provider call in progress
  fcTicks,     \* process.nextTick queue of the call
  fcLog,       \* what the call did: fs calls, their completions, callbacks
  fsLive,      \* history: containers reported created and not since destroyed
  fsEver,      \* history: containers ever reported created
  \* ---- upload handler (SpecUpload) ----
  upOptions,   \* options of the upload, after exports.upload set its defaults
  upParser,    \* the multipart parser: buffer being parsed, current part, request end
  upForm,      \* the IncomingForm: error, ended, _flushing, writer, filename
  upParts,     \* the parts handed to handlePart, in arrival order
  upFiles,     \* files: <<field, part>> in the order endFunc recorded them
  upFields,    \* fields: <<field, value>> in the order the fields ended
  upCb,        \* the invocations of the upload's callback
  upBackendLog,\* provider calls and stream destroys the upload issued
  upPending,   \* removeFile calls the backend has not completed yet
  upStore,     \* names of the objects in the container
  \* ---- download handler (SpecDownload) ----
  dlSep,       \* path.sep of the platform
  dlReq,       \* the request: absent, or its Range header; container and file
  dlStored,    \* whether the file is in the container
  dlPc,        \* "idle" | "getFile" | "streaming" | "done" | "thrown"
  dlParams,    \* params.start and params.end
  dlRes,       \* the response: status, headers, the bytes piped to it
  dlReader,    \* the stream provider.download returned
  dlCb,        \* the invocations of the download's callback
  dlCbLive,    \* FALSE once cb was replaced by the no-op
  \* ---- two uploads of one file part each, and a download (SpecShared) ----
  cuUp,        \* the two uploads: their part, write stream, handlers run, callbacks
  cuFile,      \* the object both uploads are stored as: whether it exists, its bytes
  cuErrStream, \* the 'error' listeners of writeStreamError, in the order added
  cuTicks,     \* process.nextTick queue: the uploads whose streamError is pending
  cuRead,      \* the download of the object: its read stream and the bytes piped
  cuLast       \* history: the upload that wrote to the object last (0: none)

nameVars == <<vnName, vnSep, vnPc, vnRet>>
fsVars == <<fsSep, fsEntries, fc, fcTicks, fcLog, fsLive, fsEver>>
upVars == <<upOptions, upParser, upForm, upParts, upFiles, upFields, upCb,
            upBackendLog, upPending, upStore>>
dlVars == <<dlSep, dlReq, dlStored, dlPc, dlParams, dlRes, dlReader, dlCb,
            dlCbLive>>
cuVars == <<cuUp, cuFile, cuErrStream, cuTicks, cuRead, cuLast>>
vars == <<nameVars, fsVars, upVars, dlVars, cuVars>>
notNameVars == <<fsVars, upVars, dlVars, cuVars>>
notFsVars == <<nameVars, upVars, dlVars, cuVars>>
notUpVars == <<nameVars, fsVars, dlVars, cuVars>>
notDlVars == <<nameVars, fsVars, upVars, cuVars>>
notCuVars == <<nameVars, fsVars, upVars, dlVars>>

(***************************************************************************)
(* Bounds                                                                  *)
(***************************************************************************)
MaxNameLen == 3

(***************************************************************************)
(* Name validator                                                          *)
(***************************************************************************)
\* the characters names are built from: a letter, the dot, both slashes
NameChars == {"a", ".", "/", "\\"}

\* path.sep: "/" on POSIX, "\" on Windows
PathSeps == {"/", "\\"}

Names ==
  UNION {[1..n -> NameChars] : n \in 0..MaxNameLen}

\* The set of characters a regular-expression character class body denotes:
\* a backslash escapes the character after it.
RECURSIVE ClassChars(_)
ClassChars(body) ==
  IF body = <<>> THEN {}
  ELSE IF Head(body) = "\\" /\ Len(body) >= 2
       THEN {body[2]} \cup ClassChars(SubSeq(body, 3, Len(body)))
       ELSE {Head(body)} \cup ClassChars(Tail(body))

\* namePattern = new RegExp('[^' + path.sep + '/]+'): the characters the
\* negated class excludes
namePatternExcluded(sep) == ClassChars(<<sep, "/">>)

\* containsDotDotPaths = /(^|[\\\/])\.\.([\\\/]|$)/ .test(name)
containsDotDotPaths(name) ==
  \E i \in 1..(Len(name) - 1) :
    /\ name[i] = "." /\ name[i + 1] = "."
    /\ (i = 1 \/ name[i - 1] \in {"\\", "/"})
    /\ (i + 1 = Len(name) \/ name[i + 2] \in {"\\", "/"})

\* namePattern.exec(name): the leftmost, longest run of characters outside the
\* class; <<index, length>> (index from 0), or <<-1, 0>> for no match
namePatternExec(name, sep) ==
  LET ok(i) == name[i] \notin namePatternExcluded(sep)
      starts == {i \in 1..Len(name) : ok(i)}
  IN IF starts = {} THEN <<-1, 0>>
     ELSE LET s == CHOOSE i \in starts : \A j \in starts : i <= j
              e == CHOOSE k \in s..Len(name) :
                     /\ \A j \in s..k : ok(j)
                     /\ (k = Len(name) \/ ~ok(k + 1))
          IN <<s - 1, e - s + 1>>

\* validateName(name, cb): the value it returns
validateName(name, sep) ==
  IF name = <<>> \/ containsDotDotPaths(name)
  THEN FALSE
  ELSE LET match == namePatternExec(name, sep)
       IN match[1] = 0 /\ match[2] = Len(name)

\* the provider before any call: an empty root directory, no call in progress
NoCall ==
  [op |-> "none", c |-> <<>>, f |-> <<>>, hasCb |-> FALSE, pc |-> "idle",
   names |-> <<>>, pending |-> {}, failed |-> FALSE, ended |-> FALSE]

FsIdle ==
  /\ fsSep = "/"
  /\ fsEntries = {[path |-> <<>>, kind |-> "dir"]}
  /\ fc = NoCall
  /\ fcTicks = <<>>
  /\ fcLog = <<>>
  /\ fsLive = {}
  /\ fsEver = {}

\* no upload in progress
NoParser == [failedInBuffer |-> FALSE, cur |-> 0, reqEnded |-> FALSE]
NoForm == [error |-> FALSE, ended |-> FALSE, flushing |-> 0, writer |-> 0,
           filename |-> <<>>, nfiles |-> 0, fieldsSize |-> 0]
NoOptions ==
  [maxFileSize |-> [kind |-> "number", n |-> 0],
   forbidExtnames |-> {}, allowedContentTypes |-> [kind |-> "unset", list |-> {}],
   getFilename |-> "none", nameConflict |-> "none"]

UpIdle ==
  /\ upOptions = NoOptions
  /\ upParser = NoParser
  /\ upForm = NoForm
  /\ upParts = <<>>
  /\ upFiles = <<>>
  /\ upFields = <<>>
  /\ upCb = <<>>
  /\ upBackendLog = <<>>
  /\ upPending = {}
  /\ upStore = {}

\* no download in progress
Undefined == [nan |-> FALSE, undef |-> TRUE, n |-> 0]
NoRequest ==
  [kind |-> "absent", range |-> <<>>, container |-> <<>>, remote |-> <<>>,
   containerGiven |-> TRUE, fileGiven |-> TRUE,
   params |-> [container |-> <<>>, file |-> <<>>]]
NoParams == [container |-> <<>>, remote |-> <<>>, start |-> Undefined, end |-> Undefined]
NoResponse == [status |-> "200", contentLength |-> Undefined,
               contentRange |-> <<>>, acceptRanges |-> "", body |-> <<>>]
NoError == [err |-> "", code |-> "", status |-> 0, message |-> <<>>]
NoReader == [kind |-> "none", first |-> 0, last |-> Undefined, pos |-> 0,
             open |-> FALSE, ended |-> FALSE, errored |-> FALSE,
             target |-> <<>>, err |-> NoError, res |-> NoResponse]

DlIdle ==
  /\ dlSep = "/"
  /\ dlReq = NoRequest
  /\ dlStored = FALSE
  /\ dlPc = "idle"
  /\ dlParams = NoParams
  /\ dlRes = NoResponse
  /\ dlReader = NoReader
  /\ dlCb = <<>>
  /\ dlCbLive = TRUE

\* no upload has reached the provider, nothing is stored or read
NoUpload ==
  [pc |-> "idle", valid |-> TRUE, body |-> <<>>, piped |-> 0, flushed |-> 0,
   open |-> FALSE, pos |-> 0, endCalled |-> FALSE, hashed |-> <<>>,
   own |-> 0, errs |-> 0, removes |-> 0, cbs |-> <<>>]
NoObject == [exists |-> FALSE, bytes |-> <<>>]
NoRead == [pc |-> "idle", pos |-> 0, bytes |-> <<>>, after |-> {}, alone |-> TRUE]

CuIdle ==
  /\ cuUp = <<NoUpload, NoUpload>>
  /\ cuFile = NoObject
  /\ cuErrStream = <<>>
  /\ cuTicks = <<>>
  /\ cuRead = NoRead
  /\ cuLast = 0

NameIdle ==
  /\ vnName = <<>>
  /\ vnSep = "/"
  /\ vnPc = "call"
  /\ vnRet = FALSE

InitName ==
  /\ vnName \in Names
  /\ vnSep \in PathSeps
  /\ vnPc = "call"
  /\ vnRet = FALSE
  /\ FsIdle
  /\ UpIdle
  /\ DlIdle
  /\ CuIdle

CallValidateName ==
  /\ vnPc = "call"
  /\ vnRet' = validateName(vnName, vnSep)
  /\ vnPc' = "ret"
  /\ UNCHANGED <<vnName, vnSep, notNameVars>>

NextName == CallValidateName

SpecName == InitName /\ [][NextName]_vars

\* What the naming contract calls a valid name: non-empty, no ".." segment
\* bounded by a slash of either kind or by the start/end of the string, and
\* no path separator of the platform ("/" everywhere, "\" on Windows too).
PlatformSeparators(sep) == {sep, "/"}

HasDotDotSegment(name) ==
  \E i \in 1..(Len(name) - 1) :
    /\ name[i] = "." /\ name[i + 1] = "."
    /\ (i = 1 \/ name[i - 1] \in {"\\", "/"})
    /\ (i + 1 = Len(name) \/ name[i + 2] \in {"\\", "/"})

IsSingleSegment(name, sep) ==
  \A i \in 1..Len(name) : name[i] \notin PlatformSeparators(sep)

ContractValid(name, sep) ==
  /\ name # <<>>
  /\ ~HasDotDotSegment(name)
  /\ IsSingleSegment(name, sep)

\* C1: validateName(name) is true iff the name is non-empty, has no ".."
\* segment and is one path segment (no embedded path separator).
C1_ValidateNameIffContract ==
  vnPc = "ret" => (vnRet <=> ContractValid(vnName, vnSep))

(***************************************************************************)
(* Filesystem provider: paths and the filesystem under root                *)
(***************************************************************************)
\* the names callers hand to the provider (valid and invalid ones)
FsCallNames == {<<>>, <<"a">>, <<".">>, <<".", ".">>, <<"a", "\\", "a">>}

\* the <<container, file>> pairs handed to the operations on files: one of
\* the two is the plain name
FsCallPairs ==
  {cf \in FsCallNames \X FsCallNames : cf[1] = <<"a">> \/ cf[2] = <<"a">>}

\* the segments of a name: path.join splits on the platform's separators
RECURSIVE SplitName(_, _, _)
SplitName(name, sep, cur) ==
  IF name = <<>> THEN <<cur>>
  ELSE IF Head(name) \in PlatformSeparators(sep)
       THEN <<cur>> \o SplitName(Tail(name), sep, <<>>)
       ELSE SplitName(Tail(name), sep, Append(cur, Head(name)))

\* path.normalize: empty and "." segments vanish, ".." steps up
RECURSIVE NormalizeSegs(_, _)
NormalizeSegs(segs, acc) ==
  IF segs = <<>> THEN acc
  ELSE LET sg == Head(segs)
       IN IF sg = <<>> \/ sg = <<".">>
          THEN NormalizeSegs(Tail(segs), acc)
          ELSE IF sg = <<".", ".">> /\ acc # <<>> /\ acc[Len(acc)] # <<".", ".">>
               THEN NormalizeSegs(Tail(segs), SubSeq(acc, 1, Len(acc) - 1))
               ELSE NormalizeSegs(Tail(segs), Append(acc, sg))

RECURSIVE JoinSegs(_, _)
JoinSegs(names, sep) ==
  IF names = <<>> THEN <<>>
  ELSE SplitName(Head(names), sep, <<>>) \o JoinSegs(Tail(names), sep)

\* path.join(this.root, names...): the segments below root
pathJoin(names, sep) == NormalizeSegs(JoinSegs(names, sep), <<>>)

Exists(p) == \E e \in fsEntries : e.path = p
IsDir(p) == [path |-> p, kind |-> "dir"] \in fsEntries
IsFile(p) == [path |-> p, kind |-> "file"] \in fsEntries
Parent(p) == SubSeq(p, 1, Len(p) - 1)
Children(p) ==
  {e.path[Len(p) + 1] :
     e \in {x \in fsEntries :
              Len(x.path) = Len(p) + 1 /\ SubSeq(x.path, 1, Len(p)) = p}}

\* the orders in which fs.readdir may list a set of entries
Listings(S) ==
  {l \in [1..Cardinality(S) -> S] : \A i, j \in 1..Cardinality(S) : l[i] = l[j] => i = j}

SeqRange(q) == {q[i] : i \in 1..Len(q)}

\* entries of the call's log
\* (props: the property names of the records a callback is given)
EvCall(fn, raw) ==
  [ev |-> "call", fn |-> fn, raw |-> raw, err |-> "", res |-> {}, props |-> {}]
EvDone(fn, raw, err) ==
  [ev |-> "done", fn |-> fn, raw |-> raw, err |-> err, res |-> {}, props |-> {}]
EvCb(err, res) ==
  [ev |-> "cb", fn |-> "", raw |-> <<>>, err |-> err, res |-> res, props |-> {}]
EvEmit(what, err) ==
  [ev |-> "emit", fn |-> what, raw |-> <<>>, err |-> err, res |-> {}, props |-> {}]
EvEnd ==
  [ev |-> "end", fn |-> "", raw |-> <<>>, err |-> "", res |-> {}, props |-> {}]

\* the properties of an fs.Stats object
StatKeys ==
  {"dev", "mode", "nlink", "uid", "gid", "rdev", "blksize", "ino", "size",
   "blocks", "atime", "mtime", "ctime", "birthtime"}

\* every property of the stat copied to the record
populateMetadataCopiesAll(stat, props) == props \cup stat

\* populateMetadata(stat, props): size, atime, mtime and ctime are copied
populateMetadata(stat, props) ==
  props \cup {p \in stat : p \in {"size", "atime", "mtime", "ctime"}}

\* new Container(self, props) / new File(self, props): the client and, by
\* _setProperties, every property of props
NewRecord(props) == {"client"} \cup props

\* the records an operation returns: their property names
RecordProps(op) ==
  NewRecord(populateMetadata(StatKeys,
              IF op \in {"getFile", "getFiles"} THEN {"container", "name"}
              ELSE {"name"}))

\* cb(null, record) / cb(null, records)
EvCbRecords(res, props) ==
  [ev |-> "cb", fn |-> "", raw |-> <<>>, err |-> "", res |-> res, props |-> props]

\* process.nextTick(cb.bind(null, new Error('Invalid name: ...')))
TickCb == [do |-> "cb", err |-> "InvalidName", cb |-> TRUE]
\* streamError(errStream, err, cb): emit 'error' on the next tick, then cb(null, err)
TickStreamError(hasCb) == [do |-> "emitError", err |-> "InvalidName", cb |-> hasCb]

NewCall(op, c, f, hasCb, pc) ==
  [NoCall EXCEPT !.op = op, !.c = c, !.f = f, !.hasCb = hasCb, !.pc = pc]

CallFree == fc.pc \in {"idle", "done"}

\* validateName(name, cb) failed in a callback-style method: the error is
\* delivered on the next tick and the method returns
RejectName(op, c, f) ==
  /\ fc' = NewCall(op, c, f, TRUE, "tick")
  /\ fcTicks' = <<TickCb>>
  /\ fcLog' = <<>>

\* the method goes on to its first filesystem call
FirstFsCall(op, c, f, pc, fn, raw) ==
  /\ fc' = NewCall(op, c, f, TRUE, pc)
  /\ fcTicks' = <<>>
  /\ fcLog' = <<EvCall(fn, raw)>>

(***************************************************************************)
(* Filesystem provider: the operations, up to their first filesystem call  *)
(***************************************************************************)
getContainers ==
  /\ CallFree
  /\ FirstFsCall("getContainers", <<>>, <<>>, "readdir", "readdir", <<>>)
  /\ UNCHANGED <<fsSep, fsLive, fsEver, fsEntries, notFsVars>>

createContainer(name) ==
  /\ CallFree
  /\ IF validateName(name, fsSep)
     THEN FirstFsCall("createContainer", name, <<>>, "mkdir", "mkdir", <<name>>)
     ELSE RejectName("createContainer", name, <<>>)
  /\ UNCHANGED <<fsSep, fsLive, fsEver, fsEntries, notFsVars>>

destroyContainer(containerName) ==
  /\ CallFree
  /\ IF ~validateName(containerName, fsSep)
     THEN RejectName("destroyContainer", containerName, <<>>)
     ELSE FirstFsCall("destroyContainer", containerName, <<>>, "readdir",
                      "readdir", <<containerName>>)
  /\ UNCHANGED <<fsSep, fsLive, fsEver, fsEntries, notFsVars>>

getContainer(containerName) ==
  /\ CallFree
  /\ IF ~validateName(containerName, fsSep)
     THEN RejectName("getContainer", containerName, <<>>)
     ELSE FirstFsCall("getContainer", containerName, <<>>, "stat",
                      "stat", <<containerName>>)
  /\ UNCHANGED <<fsSep, fsLive, fsEver, fsEntries, notFsVars>>

getFiles(container) ==
  /\ CallFree
  /\ IF ~validateName(container, fsSep)
     THEN RejectName("getFiles", container, <<>>)
     ELSE FirstFsCall("getFiles", container, <<>>, "readdir",
                      "readdir", <<container>>)
  /\ UNCHANGED <<fsSep, fsLive, fsEver, fsEntries, notFsVars>>

getFile(container, file) ==
  /\ CallFree
  /\ IF ~validateName(container, fsSep) \/ ~validateName(file, fsSep)
     THEN RejectName("getFile", container, file)
     ELSE FirstFsCall("getFile", container, file, "stat",
                      "stat", <<container, file>>)
  /\ UNCHANGED <<fsSep, fsLive, fsEver, fsEntries, notFsVars>>

removeFile(container, file) ==
  /\ CallFree
  /\ IF ~validateName(container, fsSep) \/ ~validateName(file, fsSep)
     THEN RejectName("removeFile", container, file)
     ELSE FirstFsCall("removeFile", container, file, "unlink",
                      "unlink", <<container, file>>)
  /\ UNCHANGED <<fsSep, fsLive, fsEver, fsEntries, notFsVars>>

\* upload(options, cb): validateName is called without cb (it only logs to the
\* console); the shared error stream emits 'error' on the next tick
upload(container, file, hasCb) ==
  /\ CallFree
  /\ IF ~validateName(container, fsSep) \/ ~validateName(file, fsSep)
     THEN /\ fc' = NewCall("upload", container, file, hasCb, "tick")
          /\ fcTicks' = <<TickStreamError(hasCb)>>
          /\ fcLog' = <<>>
     ELSE /\ fc' = NewCall("upload", container, file, hasCb, "openW")
          /\ fcTicks' = <<>>
          /\ fcLog' = <<EvCall("createWriteStream", <<container, file>>)>>
  /\ UNCHANGED <<fsSep, fsLive, fsEver, fsEntries, notFsVars>>

\* download(options, cb): validateName(name, cb) schedules cb(err) when cb is
\* given, and readStreamError schedules the 'error' event and cb(null, err)
download(container, file, hasCb) ==
  /\ CallFree
  /\ IF ~validateName(container, fsSep) \/ ~validateName(file, fsSep)
     THEN /\ fc' = NewCall("download", container, file, hasCb, "tick")
          /\ fcTicks' = (IF hasCb THEN <<TickCb>> ELSE <<>>)
                          \o <<TickStreamError(hasCb)>>
          /\ fcLog' = <<>>
     ELSE /\ fc' = NewCall("download", container, file, hasCb, "openR")
          /\ fcTicks' = <<>>
          /\ fcLog' = <<EvCall("createReadStream", <<container, file>>)>>
  /\ UNCHANGED <<fsSep, fsLive, fsEver, fsEntries, notFsVars>>

\* one process.nextTick callback runs
FsTick ==
  /\ fc.pc = "tick"
  /\ fcTicks # <<>>
  /\ LET t == Head(fcTicks)
     IN fcLog' = fcLog \o
          (IF t.do = "cb"
           THEN <<EvCb(t.err, {})>>
           ELSE <<EvEmit("error", t.err)>> \o
                (IF t.cb THEN <<EvCb("", {<<"Error", t.err>>})>> ELSE <<>>))
  /\ fcTicks' = Tail(fcTicks)
  /\ fc' = [fc EXCEPT !.pc = IF Len(fcTicks) = 1 THEN "done" ELSE "tick"]
  /\ UNCHANGED <<fsSep, fsLive, fsEver, fsEntries, notFsVars>>

(***************************************************************************)
(* Filesystem provider: completion of the filesystem calls                 *)
(***************************************************************************)
\* the directory and the file a call addresses, below root
CallDir ==
  IF fc.op = "getContainers" THEN <<>> ELSE pathJoin(<<fc.c>>, fsSep)
CallPath ==
  IF fc.op \in {"getFile", "removeFile", "upload", "download"}
  THEN pathJoin(<<fc.c, fc.f>>, fsSep)
  ELSE CallDir
CallRaw ==
  IF fc.op \in {"getFile", "removeFile", "upload", "download"}
  THEN <<fc.c, fc.f>>
  ELSE IF fc.op = "getContainers" THEN <<>> ELSE <<fc.c>>

\* fs.mkdir(dir, options, cb) completes (the directory that holds root exists)
FsMkdirDone ==
  /\ fc.pc = "mkdir"
  /\ LET p == CallPath
         err == IF Exists(p) THEN "EEXIST"
                ELSE IF p # <<>> /\ ~IsDir(Parent(p)) THEN "ENOENT" ELSE ""
     IN IF err # ""
        THEN /\ fcLog' = fcLog \o <<EvDone("mkdir", CallRaw, err), EvCb(err, {})>>
             /\ fc' = [fc EXCEPT !.pc = "done"]
             /\ UNCHANGED fsEntries
        ELSE /\ fsEntries' = fsEntries \cup {[path |-> p, kind |-> "dir"]}
             /\ fcLog' = fcLog \o <<EvDone("mkdir", CallRaw, ""), EvCall("stat", CallRaw)>>
             /\ fc' = [fc EXCEPT !.pc = "stat"]
  /\ UNCHANGED <<fsSep, fsLive, fsEver, fcTicks, notFsVars>>

\* fs.stat(path, cb) completes: createContainer, getContainer, getFile
FsStatDone ==
  /\ fc.pc = "stat"
  /\ LET p == CallPath
         err == IF Exists(p) THEN "" ELSE "ENOENT"
         name == IF fc.op = "getFile" THEN fc.f ELSE fc.c
     IN fcLog' = fcLog \o
          <<EvDone("stat", CallRaw, err),
            IF err = "" THEN EvCbRecords({name}, RecordProps(fc.op))
            ELSE EvCb(err, {})>>
  /\ fc' = [fc EXCEPT !.pc = "done"]
  /\ IF fc.op = "createContainer" /\ Exists(CallPath)
     THEN fsLive' = fsLive \cup {fc.c} /\ fsEver' = fsEver \cup {fc.c}
     ELSE UNCHANGED <<fsLive, fsEver>>
  /\ UNCHANGED <<fsSep, fsEntries, fcTicks, notFsVars>>

\* fs.unlink(filePath, cb) completes: removeFile
FsUnlinkDone ==
  /\ fc.pc = "unlink"
  /\ LET p == CallPath
         err == IF IsFile(p) THEN "" ELSE IF IsDir(p) THEN "EISDIR" ELSE "ENOENT"
     IN /\ fsEntries' = fsEntries \ {[path |-> p, kind |-> "file"]}
        /\ fcLog' = fcLog \o <<EvDone("unlink", CallRaw, err), EvCb(err, {})>>
  /\ fc' = [fc EXCEPT !.pc = "done"]
  /\ UNCHANGED <<fsSep, fsLive, fsEver, fcTicks, notFsVars>>

\* the task each entry gets in async.parallel
TaskFn == IF fc.op = "destroyContainer" THEN "unlink" ELSE "stat"

\* the final callback handing over every entry, whatever its kind
ParallelDoneNoFilter(log, stats) ==
  IF fc.op = "destroyContainer"
  THEN /\ fcLog' = log \o <<EvCall("rmdir", CallRaw)>>
       /\ fc' = [fc EXCEPT !.pc = "rmdir", !.pending = {}]
  ELSE /\ fcLog' = log \o <<EvCbRecords({st[1] : st \in stats}, RecordProps(fc.op))>>
       /\ fc' = [fc EXCEPT !.pc = "done", !.pending = {}]

\* async.parallel's final callback when every task has succeeded
ParallelDone(log, stats) ==
  IF fc.op = "destroyContainer"
  THEN /\ fcLog' = log \o <<EvCall("rmdir", CallRaw)>>
       /\ fc' = [fc EXCEPT !.pc = "rmdir", !.pending = {}]
  ELSE LET want == IF fc.op = "getContainers" THEN "dir" ELSE "file"
       IN /\ fcLog' = log \o <<EvCbRecords({st[1] : st \in {x \in stats : x[2] = want}},
                                          RecordProps(fc.op))>>
          /\ fc' = [fc EXCEPT !.pc = "done", !.pending = {}]

\* fs.readdir(dir, cb) completes; an error is ignored (files = files || []) and
\* every task of async.parallel is started at once
FsReaddirDone ==
  /\ fc.pc = "readdir"
  /\ \E names \in (IF IsDir(CallDir) THEN Listings(Children(CallDir)) ELSE {<<>>}) :
       LET err == IF IsDir(CallDir) THEN "" ELSE "ENOENT"
           log == fcLog \o <<EvDone("readdir", CallRaw, err)>> \o
                  [i \in 1..Len(names) |-> EvCall(TaskFn, CallRaw \o <<names[i]>>)]
       IN IF names = <<>>
          THEN ParallelDone(log, {})
          ELSE /\ fcLog' = log
               /\ fc' = [fc EXCEPT !.pc = "parallel", !.names = <<>>,
                                   !.pending = SeqRange(names), !.failed = FALSE]
  /\ UNCHANGED <<fsSep, fsLive, fsEver, fsEntries, fcTicks, notFsVars>>

\* the stat results gathered so far: <<name, kind>> of each completed task
StatsSoFar ==
  {<<fcLog[i].raw[Len(fcLog[i].raw)], fcLog[i].fn>> :
     i \in {j \in 1..Len(fcLog) : fcLog[j].ev = "stat"}}

\* async.parallel going on to its final step although a task has failed
FsTaskDoneIgnoresFailure ==
  /\ fc.pc = "parallel"
  /\ \E n \in fc.pending :
       LET p == CallDir \o <<n>>
           err == IF TaskFn = "unlink"
                  THEN (IF IsFile(p) THEN "" ELSE IF IsDir(p) THEN "EISDIR" ELSE "ENOENT")
                  ELSE (IF Exists(p) THEN "" ELSE "ENOENT")
           kind == IF IsDir(p) THEN "dir" ELSE "file"
           done == IF TaskFn = "stat" /\ err = ""
                   THEN [ev |-> "stat", fn |-> kind, raw |-> CallRaw \o <<n>>,
                         err |-> "", res |-> {}, props |-> {}]
                   ELSE EvDone(TaskFn, CallRaw \o <<n>>, err)
           log == fcLog \o <<done>> \o
                  (IF err # "" /\ ~fc.failed THEN <<EvCb(err, {})>> ELSE <<>>)
           left == fc.pending \ {n}
       IN /\ fsEntries' = IF TaskFn = "unlink"
                          THEN fsEntries \ {[path |-> p, kind |-> "file"]}
                          ELSE fsEntries
          /\ IF left = {}
             THEN ParallelDone(log, StatsSoFar \cup
                                 (IF TaskFn = "stat" /\ err = "" THEN {<<n, kind>>} ELSE {}))
             ELSE /\ fcLog' = log
                  /\ fc' = [fc EXCEPT !.pending = left, !.failed = fc.failed \/ err # ""]
  /\ UNCHANGED <<fsSep, fsLive, fsEver, fcTicks, notFsVars>>

\* one task of async.parallel completes; the first error goes to the callback
FsTaskDone ==
  /\ fc.pc = "parallel"
  /\ \E n \in fc.pending :
       LET p == CallDir \o <<n>>
           err == IF TaskFn = "unlink"
                  THEN (IF IsFile(p) THEN "" ELSE IF IsDir(p) THEN "EISDIR" ELSE "ENOENT")
                  ELSE (IF Exists(p) THEN "" ELSE "ENOENT")
           kind == IF IsDir(p) THEN "dir" ELSE "file"
           done == IF TaskFn = "stat" /\ err = ""
                   THEN [ev |-> "stat", fn |-> kind, raw |-> CallRaw \o <<n>>,
                         err |-> "", res |-> {}, props |-> {}]
                   ELSE EvDone(TaskFn, CallRaw \o <<n>>, err)
           log == fcLog \o <<done>> \o
                  (IF err # "" /\ ~fc.failed THEN <<EvCb(err, {})>> ELSE <<>>)
           failed == fc.failed \/ err # ""
           left == fc.pending \ {n}
       IN /\ fsEntries' = IF TaskFn = "unlink"
                          THEN fsEntries \ {[path |-> p, kind |-> "file"]}
                          ELSE fsEntries
          /\ IF left = {} /\ ~failed
             THEN ParallelDone(log, StatsSoFar \cup
                                 (IF TaskFn = "stat" THEN {<<n, kind>>} ELSE {}))
             ELSE /\ fcLog' = log
                  /\ fc' = [fc EXCEPT !.pending = left, !.failed = failed,
                                      !.pc = IF left = {} THEN "done" ELSE "parallel"]
  /\ UNCHANGED <<fsSep, fsLive, fsEver, fcTicks, notFsVars>>

\* fs.rmdir(dir, cb) completes: destroyContainer
FsRmdirDone ==
  /\ fc.pc = "rmdir"
  /\ LET p == CallDir
         err == IF ~IsDir(p) THEN "ENOENT"
                ELSE IF Children(p) # {} THEN "ENOTEMPTY" ELSE ""
     IN /\ fsEntries' = IF err = "" THEN fsEntries \ {[path |-> p, kind |-> "dir"]}
                        ELSE fsEntries
        /\ fsLive' = IF err = "" THEN fsLive \ {fc.c} ELSE fsLive
        /\ fcLog' = fcLog \o <<EvDone("rmdir", CallRaw, err), EvCb(err, {})>>
  /\ fc' = [fc EXCEPT !.pc = "done"]
  /\ UNCHANGED <<fsSep, fsEver, fcTicks, notFsVars>>

\* the open of fs.createWriteStream(filePath, {flags: 'w+'}) completes
FsOpenWriteDone ==
  /\ fc.pc = "openW"
  /\ LET p == CallPath
         err == IF IsDir(p) THEN "EISDIR"
                ELSE IF ~IsDir(Parent(p)) THEN "ENOENT" ELSE ""
     IN IF err # ""
        THEN /\ fcLog' = fcLog \o
                  <<EvDone("createWriteStream", CallRaw, err), EvEmit("error", err)>>
             /\ fc' = [fc EXCEPT !.pc = "done"]
             /\ UNCHANGED fsEntries
        ELSE /\ fsEntries' = fsEntries \cup {[path |-> p, kind |-> "file"]}
             /\ fcLog' = fcLog \o <<EvDone("createWriteStream", CallRaw, "")>>
             /\ fc' = [fc EXCEPT !.pc = "writing"]
  /\ UNCHANGED <<fsSep, fsLive, fsEver, fcTicks, notFsVars>>

\* the caller ends the sink upload returned: stream.end()
FsSinkEnd ==
  /\ fc.op = "upload" /\ fc.pc \in {"tick", "openW", "writing", "done"}
  /\ ~fc.ended
  /\ fc' = [fc EXCEPT !.ended = TRUE]
  /\ fcLog' = fcLog \o <<EvEnd>>
  /\ UNCHANGED <<fsSep, fsLive, fsEver, fsEntries, fcTicks, notFsVars>>

\* 'success' emitted as soon as the file is open
FsWriteFinishBeforeEnd ==
  /\ fc.pc = "writing"
  /\ fcLog' = fcLog \o <<EvEmit("finish", ""), EvEmit("success", "")>>
  /\ fc' = [fc EXCEPT !.pc = "done"]
  /\ UNCHANGED <<fsSep, fsLive, fsEver, fsEntries, fcTicks, notFsVars>>

\* the write stream, ended and flushed, emits 'finish':
\* stream.on('finish', function() { stream.emit('success'); })
FsWriteFinish ==
  /\ fc.pc = "writing" /\ fc.ended
  /\ fcLog' = fcLog \o <<EvEmit("finish", ""), EvEmit("success", "")>>
  /\ fc' = [fc EXCEPT !.pc = "done"]
  /\ UNCHANGED <<fsSep, fsLive, fsEver, fsEntries, fcTicks, notFsVars>>

\* a write of the stream fails: the stream emits 'error' and is destroyed
FsWriteError ==
  /\ fc.pc = "writing"
  /\ fcLog' = fcLog \o <<EvEmit("error", "EIO")>>
  /\ fc' = [fc EXCEPT !.pc = "done"]
  /\ UNCHANGED <<fsSep, fsLive, fsEver, fsEntries, fcTicks, notFsVars>>

\* the open of fs.createReadStream(filePath, fileOpts) completes
FsOpenReadDone ==
  /\ fc.pc = "openR"
  /\ LET p == CallPath
         err == IF IsFile(p) THEN "" ELSE IF IsDir(p) THEN "EISDIR" ELSE "ENOENT"
     IN IF err # ""
        THEN /\ fcLog' = fcLog \o
                  <<EvDone("createReadStream", CallRaw, err), EvEmit("error", err)>>
             /\ fc' = [fc EXCEPT !.pc = "done"]
        ELSE /\ fcLog' = fcLog \o <<EvDone("createReadStream", CallRaw, "")>>
             /\ fc' = [fc EXCEPT !.pc = "reading"]
  /\ UNCHANGED <<fsSep, fsLive, fsEver, fsEntries, fcTicks, notFsVars>>

\* the read stream delivers its last byte
FsReadEnd ==
  /\ fc.pc = "reading"
  /\ fcLog' = fcLog \o <<EvEmit("end", "")>>
  /\ fc' = [fc EXCEPT !.pc = "done"]
  /\ UNCHANGED <<fsSep, fsLive, fsEver, fsEntries, fcTicks, notFsVars>>

\* another request removes a file while the call is in progress
FsOtherRemoves ==
  /\ fc.pc \in {"parallel", "stat", "unlink", "openR"}
  /\ \E e \in fsEntries :
       /\ e.kind = "file"
       /\ fsEntries' = fsEntries \ {e}
  /\ UNCHANGED <<fsSep, fsLive, fsEver, fc, fcTicks, fcLog, notFsVars>>

InitFs ==
  /\ NameIdle
  /\ UpIdle
  /\ DlIdle
  /\ CuIdle
  /\ fsSep \in PathSeps
  /\ fsEntries = {[path |-> <<>>, kind |-> "dir"]}
  /\ fc = NoCall
  /\ fcTicks = <<>>
  /\ fcLog = <<>>
  /\ fsLive = {}
  /\ fsEver = {}

NextFs ==
  \/ getContainers
  \/ \E c \in FsCallNames : createContainer(c)
  \/ \E c \in FsCallNames : destroyContainer(c)
  \/ \E c \in FsCallNames : getContainer(c)
  \/ \E c \in FsCallNames : getFiles(c)
  \/ \E cf \in FsCallPairs : getFile(cf[1], cf[2])
  \/ \E cf \in FsCallPairs : removeFile(cf[1], cf[2])
  \/ \E cf \in FsCallPairs, hasCb \in BOOLEAN : upload(cf[1], cf[2], hasCb)
  \/ \E cf \in FsCallPairs, hasCb \in BOOLEAN : download(cf[1], cf[2], hasCb)
  \/ FsTick
  \/ FsMkdirDone
  \/ FsStatDone
  \/ FsUnlinkDone
  \/ FsReaddirDone
  \/ FsTaskDone
  \/ FsRmdirDone
  \/ FsOpenWriteDone
  \/ FsSinkEnd
  \/ FsWriteFinish
  \/ FsWriteError
  \/ FsOpenReadDone
  \/ FsReadEnd
  \/ FsOtherRemoves

SpecFs == InitFs /\ [][NextFs]_vars

\* the names a call was given
SuppliedNames ==
  IF fc.op \in {"getFile", "removeFile", "upload", "download"} THEN {fc.c, fc.f}
  ELSE IF fc.op \in {"createContainer", "destroyContainer", "getContainer", "getFiles"}
       THEN {fc.c}
       ELSE {}

FsCallsMade == {i \in 1..Len(fcLog) : fcLog[i].ev = "call"}

InvalidNameSurfaced ==
  \E i \in 1..Len(fcLog) :
    /\ fcLog[i].err = "InvalidName"
    /\ \/ fcLog[i].ev = "cb"
       \/ fcLog[i].ev = "emit" /\ fcLog[i].fn = "error"

\* C2: when a name supplied to a provider operation is invalid (in the sense
\* of the naming contract), the call makes no filesystem call and, once it
\* has run, an invalid-name error has reached the caller.
C2_InvalidNameNoFsCall ==
  (\E n \in SuppliedNames : ~ContractValid(n, fsSep)) =>
     /\ FsCallsMade = {}
     /\ fc.pc = "done" => InvalidNameSurfaced

\* The same with "invalid" read as "validateName returned false": every
\* operation is gated by validateName before its first filesystem call.
FsGatedByValidateName ==
  (\E n \in SuppliedNames : ~validateName(n, fsSep)) =>
     /\ FsCallsMade = {}
     /\ fc.pc = "done" => InvalidNameSurfaced

\* positions in the call's log
LogCalls(fn) == {i \in 1..Len(fcLog) : fcLog[i].ev = "call" /\ fcLog[i].fn = fn}
LogDone(fn) == {i \in 1..Len(fcLog) : fcLog[i].ev = "done" /\ fcLog[i].fn = fn}
LogFailed(fn) == {i \in LogDone(fn) : fcLog[i].err # ""}
LogCallbacks == {i \in 1..Len(fcLog) : fcLog[i].ev = "cb"}
\* the first of a non-empty set of positions
First(S) == CHOOSE i \in S : \A j \in S : i <= j

\* every container reported created had a valid name ('.' is one: it is
\* non-empty, has no '..' segment and no separator)
ValidNamesOnly == \A n \in fsEver : ContractValid(n, fsSep)

\* the last entry of the call's log
LastEvent == fcLog[Len(fcLog)]

\* between calls the directories under root are the containers created and
\* not since destroyed, and the list getContainers returned is that set
ContainersAreLive ==
  (ValidNamesOnly /\ fc.pc \in {"idle", "done"}) =>
     /\ {n \in Children(<<>>) : IsDir(<<n>>)} = fsLive
     /\ fc.op = "getContainers" =>
          \A i \in LogCallbacks : fcLog[i].err = "" => fcLog[i].res = fsLive

\* createContainer of a container that exists fails and changes nothing
CreateExistingFails ==
  (ValidNamesOnly /\ fc.op = "createContainer" /\ fc.pc = "mkdir"
     /\ fc'.pc # "mkdir" /\ fc.c \in fsLive) =>
       /\ fc'.pc = "done"
       /\ fcLog'[Len(fcLog')].ev = "cb"
       /\ fcLog'[Len(fcLog')].err = "EEXIST"
       /\ fsEntries' = fsEntries
       /\ fsLive' = fsLive

\* C18: after completed createContainer and destroyContainer calls with
\* valid names getContainers returns exactly the containers created and not
\* since destroyed; createContainer of an existing name fails and leaves
\* that set unchanged.
C18_ContainersCreatedNotDestroyed ==
  []ContainersAreLive /\ [][CreateExistingFails]_vars

\* the callbacks that handed records to the caller
RecordCallbacks ==
  {i \in 1..Len(fcLog) : fcLog[i].ev = "cb" /\ fcLog[i].props # {}}

\* C17: a record returned by getContainers, createContainer, getContainer,
\* getFiles or getFile has, besides its name (and container), the stat
\* fields size, atime, mtime and ctime and no other stat field.
C17_OnlySanitizedStatFields ==
  \A i \in RecordCallbacks :
    /\ fc.op \in {"getContainers", "createContainer", "getContainer",
                  "getFiles", "getFile"}
    /\ fcLog[i].props \cap StatKeys = {"size", "atime", "mtime", "ctime"}
    /\ fcLog[i].props \ StatKeys =
         {"client", "name"} \cup
           (IF fc.op \in {"getFiles", "getFile"} THEN {"container"} ELSE {})
    /\ fcLog[i].props \cap {"uid", "gid", "mode"} = {}

\* getFiles has returned the record of a file
C17_Witness ==
  /\ fc.op = "getFiles" /\ fc.pc = "done"
  /\ \E i \in RecordCallbacks : fcLog[i].res # {} /\ "size" \in fcLog[i].props

\* C21: destroyContainer issues rmdir only when every unlink it issued has
\* completed without error; once the deletion of a member has failed there
\* is no rmdir, the container directory stays, and the callback has been
\* given the error of the first failed deletion, once.
C21_RmdirAfterAllUnlinks ==
  fc.op = "destroyContainer" =>
    /\ \A r \in LogCalls("rmdir") :
         /\ LogFailed("unlink") = {}
         /\ \A u \in LogCalls("unlink") :
              \E d \in LogDone("unlink") : d < r /\ fcLog[d].raw = fcLog[u].raw
    /\ LogFailed("unlink") # {} =>
         /\ LogCalls("rmdir") = {}
         /\ IsDir(CallDir)
         /\ Cardinality(LogCallbacks) = 1
         /\ \A c \in LogCallbacks :
              /\ c = First(LogFailed("unlink")) + 1
              /\ fcLog[c].err = fcLog[First(LogFailed("unlink"))].err

\* the deletion of two members failed and the callback was called once
C21_Witness ==
  /\ fc.op = "destroyContainer" /\ fc.pc = "done"
  /\ Cardinality(LogFailed("unlink")) = 2
  /\ Cardinality(LogCallbacks) = 1

\* positions of the events a stream emitted, and of the caller's end()
LogEmits(what) == {i \in 1..Len(fcLog) : fcLog[i].ev = "emit" /\ fcLog[i].fn = what}
LogEnds == {i \in 1..Len(fcLog) : fcLog[i].ev = "end"}

\* C23: the sink upload returns emits 'success' at most once, after end()
\* was called and directly after the write stream's 'finish', and never
\* when it has emitted 'error'; the sink returned for an invalid container
\* or file name emits 'error' (once the call has run) and never 'success'.
C23_SuccessAfterEndAndFinish ==
  fc.op = "upload" =>
    /\ Cardinality(LogEmits("success")) <= 1
    /\ \A i \in LogEmits("success") :
         /\ \E e \in LogEnds : e < i
         /\ i - 1 \in LogEmits("finish")
         /\ fc.ended
         /\ LogDone("createWriteStream") # {} /\ LogFailed("createWriteStream") = {}
         /\ LogEmits("error") = {}
    /\ (~validateName(fc.c, fsSep) \/ ~validateName(fc.f, fsSep)) =>
         /\ LogEmits("success") = {}
         /\ fc.pc = "done" => Cardinality(LogEmits("error")) = 1

\* a file was opened, ended and flushed: 'success' was emitted
C23_Witness ==
  /\ fc.op = "upload" /\ fc.pc = "done"
  /\ LogEmits("success") # {}
  /\ IsFile(CallPath)

\* the entries fs.readdir listed whose fs.stat succeeded with the given kind
Stated(kind) ==
  {fcLog[i].raw[Len(fcLog[i].raw)] :
     i \in {j \in 1..Len(fcLog) : fcLog[j].ev = "stat" /\ fcLog[j].fn = kind}}

\* C22: in getContainers and getFiles the callback is invoked at most once
\* and, when the call has run, exactly once; after a failed stat it was given
\* the error of the first failed stat and no list; when every stat succeeded
\* it was given exactly the enumerated entries that are directories
\* (getContainers) or regular files (getFiles).
C22_ListingAllOrNothing ==
  fc.op \in {"getContainers", "getFiles"} =>
    LET want == IF fc.op = "getContainers" THEN "dir" ELSE "file"
    IN /\ Cardinality(LogCallbacks) <= 1
       /\ fc.pc = "done" => Cardinality(LogCallbacks) = 1
       /\ LogFailed("stat") # {} =>
            /\ Cardinality(LogCallbacks) = 1
            /\ \A c \in LogCallbacks :
                 /\ fcLog[c].err = fcLog[First(LogFailed("stat"))].err
                 /\ fcLog[c].res = {} /\ fcLog[c].props = {}
       /\ LogFailed("stat") = {} /\ FsCallsMade # {} =>
            \A c \in LogCallbacks :
              /\ fcLog[c].err = ""
              /\ fcLog[c].res = Stated(want)
              /\ \A n \in fcLog[c].res :
                   IF want = "dir" THEN IsDir(CallDir \o <<n>>)
                   ELSE ~IsDir(CallDir \o <<n>>)
              /\ {n \in Children(CallDir) :
                    IF want = "dir" THEN IsDir(CallDir \o <<n>>)
                    ELSE IsFile(CallDir \o <<n>>)} \subseteq fcLog[c].res

\* getContainers enumerated two entries and the stat of one of them failed
C22_Witness ==
  /\ fc.op = "getContainers" /\ fc.pc = "done"
  /\ Cardinality(LogCalls("stat")) = 2
  /\ Cardinality(LogFailed("stat")) = 1
  /\ \E c \in LogCallbacks : fcLog[c].err = "ENOENT"

(***************************************************************************)
(* Upload handler: inputs and options                                      *)
(***************************************************************************)
MaxParts == 2
MaxChunks == 2

\* defaultOptions.maxFileSize = 10 * 1024 * 1024
DefaultMaxFileSize == 10485760

\* self.maxFieldsSize of an IncomingForm created without the option: 20 MiB
MaxFieldsSize == 20971520

\* what a configured function returns when it returns nothing (undefined)
NoValue == -1

\* the parts of a request: field name, part.filename (<<>> for a part without
\* filename, a plain field) and part.mime
UpPartKinds ==
  {[field |-> "f", filename |-> <<>>, mime |-> "text/plain"],
   [field |-> "f", filename |-> <<"a", ".", "j">>, mime |-> "image/jpeg"],
   [field |-> "f", filename |-> <<"a", ".", "j">>, mime |-> "text/plain"],
   [field |-> "f", filename |-> <<"b", ".", "H">>, mime |-> "image/jpeg"]}
\* buffer.length of the chunks a part delivers
ChunkLens == {1, DefaultMaxFileSize}
\* what options.maxFileSize(file, req, res) may return
MaxFileSizeReturns == {NoValue, 0, 1}

\* JavaScript truthiness of a number or undefined
Truthy(v) == v # 0 /\ v # NoValue

\* options.maxFileSize as the caller may give it
MaxFileSizeGiven ==
  {[kind |-> "unset", n |-> 0], [kind |-> "function", n |-> 0]}
    \cup {[kind |-> "number", n |-> n] : n \in 0..2}

\* !options.maxFileSize
OptionFalsy(opt) == opt.kind = "unset" \/ (opt.kind = "number" /\ ~Truthy(opt.n))

\* exports.upload: if (!options.maxFileSize) options.maxFileSize = defaultOptions.maxFileSize
UploadDefaults(given) ==
  IF OptionFalsy(given) THEN [kind |-> "number", n |-> DefaultMaxFileSize] ELSE given

\* the policies of an upload: allowedContentTypes as a list, as a function
\* (list: what it returns) or as the empty list; options.getFilename absent,
\* the test application's, or one that appends '.h'; nameConflict
UploadPolicies ==
  {[allowedContentTypes |-> [kind |-> "list", list |-> {"image/jpeg"}],
    getFilename |-> "none", nameConflict |-> "none"],
   [allowedContentTypes |-> [kind |-> "list", list |-> {"image/jpeg"}],
    getFilename |-> "prefix", nameConflict |-> "none"],
   [allowedContentTypes |-> [kind |-> "function", list |-> {"image/jpeg"}],
    getFilename |-> "none", nameConflict |-> "makeUnique"],
   [allowedContentTypes |-> [kind |-> "list", list |-> {}],
    getFilename |-> "append", nameConflict |-> "makeUnique"]}

\* the options of an upload: every way to give maxFileSize without a policy,
\* and the policies with forbidExtnames ['.h']
UploadOptions ==
  {[given |-> g,
    maxFileSize |-> UploadDefaults(g),
    forbidExtnames |-> {},
    allowedContentTypes |-> [kind |-> "unset", list |-> {}],
    getFilename |-> "none", nameConflict |-> "none"] : g \in MaxFileSizeGiven}
  \cup
  {[given |-> [kind |-> "number", n |-> 2],
    maxFileSize |-> UploadDefaults([kind |-> "number", n |-> 2]),
    forbidExtnames |-> {<<".", "h">>},
    allowedContentTypes |-> pol.allowedContentTypes,
    getFilename |-> pol.getFilename,
    nameConflict |-> pol.nameConflict] : pol \in UploadPolicies}

\* String.prototype.toLowerCase on the letters in use
LowerChar(ch) ==
  IF ch = "A" THEN "a" ELSE IF ch = "H" THEN "h" ELSE IF ch = "J" THEN "j" ELSE ch
toLowerCase(str) == [i \in 1..Len(str) |-> LowerChar(str[i])]

\* path.extname: from the last dot, unless the name has none or starts with it
extname(name) ==
  LET dots == {i \in 1..Len(name) : name[i] = "."}
  IN IF dots = {} THEN <<>>
     ELSE LET d == CHOOSE i \in dots : \A j \in dots : j <= i
          IN IF d = 1 THEN <<>> ELSE SubSeq(name, d, Len(name))

\* options.getFilename of the test application: 'image-' + fileInfo.name
getFilename(name) == <<"i">> \o name

\* an options.getFilename that changes the extension: fileInfo.name + '.h'
getFilenameAppend(name) == name \o <<".", "h">>

\* uuid.v4(): a name of its own for every part
UuidChars == <<"u", "v", "w", "x">>
uuidv4(p) == <<UuidChars[p]>>

NewPart(field, filename, mime) ==
  [field |-> field, filename |-> filename, mime |-> mime,
   name |-> filename, originalFilename |-> <<>>,
   status |-> "field", max |-> NoValue, fnRet |-> NoValue, fnCalls |-> 0,
   lens |-> <<>>, fileSize |-> 0, sizeSet |-> FALSE, sizeErrAt |-> 0,
   ended |-> FALSE, digest |-> FALSE, endCalled |-> FALSE,
   wr |-> "none", destroyed |-> FALSE, hasOriginal |-> FALSE, value |-> <<>>]

\* the handler's state as one value, for the steps that run synchronously
UpState ==
  [options |-> upOptions, parser |-> upParser, form |-> upForm, parts |-> upParts,
   files |-> upFiles, fields |-> upFields, cbs |-> upCb, blog |-> upBackendLog,
   ops |-> upPending, store |-> upStore]

UpSet(st) ==
  /\ upParser' = st.parser
  /\ upForm' = st.form
  /\ upParts' = st.parts
  /\ upFiles' = st.files
  /\ upFields' = st.fields
  /\ upCb' = st.cbs
  /\ upBackendLog' = st.blog
  /\ upPending' = st.ops
  /\ upStore' = st.store
  /\ UNCHANGED <<upOptions, notUpVars>>

(***************************************************************************)
(* Upload handler: callbacks and event handlers                            *)
(***************************************************************************)
\* err.statusCode = 400
BadRequest == 400

\* the callback without the check for an upload without files
parseCallbackNoFileCheck(st, err) ==
  [st EXCEPT !.cbs = Append(@,
     IF err # "" THEN [err |-> err, ok |-> FALSE, statusCode |-> NoValue]
     ELSE [err |-> "", ok |-> TRUE, statusCode |-> NoValue])]

\* form.parse(req, function(err, _fields, _files) {...})
parseCallback(st, err) ==
  [st EXCEPT !.cbs = Append(@,
     IF err # "" THEN [err |-> err, ok |-> FALSE, statusCode |-> NoValue]
     ELSE IF st.form.nfiles = 0
     THEN [err |-> "NoFile", ok |-> FALSE, statusCode |-> BadRequest]
     ELSE [err |-> "", ok |-> TRUE, statusCode |-> NoValue])]

\* form.on('error', ...): destroy form.writer, remove form.filename.
\* by: the part whose failure raised the event
onFormError(st, by) ==
  LET w == st.form.writer
      st1 == IF w # 0 /\ ~st.parts[w].destroyed
             THEN [st EXCEPT !.parts[w].destroyed = TRUE,
                             !.blog = Append(@, [op |-> "destroy", name |-> st.parts[w].name,
                                                 target |-> w, by |-> by])]
             ELSE st
  IN IF st1.form.filename # <<>>
     THEN [st1 EXCEPT !.blog = Append(@, [op |-> "removeFile", name |-> st1.form.filename,
                                          target |-> 0, by |-> by]),
                      !.ops = @ \cup {[name |-> st1.form.filename, id |-> Len(st1.blog) + 1]}]
     ELSE st1

\* form.emit('error', err): the listeners run in the order they were added
emitError(st, err, by) == parseCallback(onFormError(st, by), err)

\* IncomingForm.prototype._error: the first error wins
formError(st, err, by) ==
  IF st.form.error \/ st.form.ended THEN st
  ELSE emitError([st EXCEPT !.form.error = TRUE], err, by)

\* IncomingForm.prototype._maybeEnd: emit 'end' once everything is flushed
maybeEnd(st) ==
  IF ~st.form.ended \/ st.form.flushing # 0 \/ st.form.error THEN st
  ELSE parseCallback(st, "")

\* endFunc: the backend signalled 'success' for part p
endFunc(st, p) ==
  maybeEnd([st EXCEPT !.form.flushing = @ - 1,
                      !.form.nfiles = @ + 1,
                      !.files = Append(@, <<st.parts[p].field, p>>)])

(***************************************************************************)
(* Upload handler: form.handlePart and the part's listeners                *)
(***************************************************************************)
\* nameConflict 'makeUnique' taking precedence over getFilename
namedFileUniqueFirst(part, options, p) ==
  IF options.nameConflict = "makeUnique"
  THEN [part EXCEPT !.originalFilename = part.name, !.hasOriginal = TRUE,
                    !.name = uuidv4(p) \o extname(part.name)]
  ELSE IF options.getFilename # "none"
  THEN [part EXCEPT !.originalFilename = part.name, !.hasOriginal = TRUE,
                    !.name = IF options.getFilename = "prefix"
                             THEN getFilename(part.name)
                             ELSE getFilenameAppend(part.name)]
  ELSE part

\* "Build a filename": the file record after getFilename / makeUnique
namedFile(part, options, p) ==
  IF options.getFilename # "none"
  THEN [part EXCEPT !.originalFilename = part.name, !.hasOriginal = TRUE,
                    !.name = IF options.getFilename = "prefix"
                             THEN getFilename(part.name)
                             ELSE getFilenameAppend(part.name)]
  ELSE IF options.nameConflict = "makeUnique"
  THEN [part EXCEPT !.originalFilename = part.name, !.hasOriginal = TRUE,
                    !.name = uuidv4(p) \o extname(part.name)]
  ELSE part

\* the extension compared as it is written
extForbiddenCaseSensitive(filename, options) ==
  /\ options.forbidExtnames # {}
  /\ extname(filename) \in options.forbidExtnames

\* forbidExtnames.map(t => t.toLowerCase()).includes(extname.toLowerCase())
extForbidden(filename, options) ==
  /\ options.forbidExtnames # {}
  /\ toLowerCase(extname(filename)) \in {toLowerCase(t) : t \in options.forbidExtnames}

\* the check made for a configured list only, not for a function's list
typeForbiddenListOnly(mime, options) ==
  /\ options.allowedContentTypes.kind = "list"
  /\ options.allowedContentTypes.list # {}
  /\ mime \notin options.allowedContentTypes.list

\* allowedContentTypes.indexOf(file.type) === -1
typeForbidden(mime, options) ==
  /\ options.allowedContentTypes.kind # "unset"
  /\ options.allowedContentTypes.list # {}
  /\ mime \notin options.allowedContentTypes.list

\* "Get max file size": fnRet is what options.maxFileSize(file, req, res) returns
resolveMaxFileSize(options, fnRet) ==
  IF ~OptionFalsy(options.maxFileSize)
  THEN IF options.maxFileSize.kind = "function" THEN fnRet ELSE options.maxFileSize.n
  ELSE NoValue

\* form.handlePart(part)
handlePart(st, field, filename, mime, fnRet) ==
  LET p == Len(st.parts) + 1
      part == NewPart(field, filename, mime)
  IN IF filename = <<>>
     THEN [st EXCEPT !.parts = Append(@, part), !.parser.cur = p]
     ELSE
       LET file == namedFile(part, st.options, p)
           st1 == [st EXCEPT !.form.flushing = @ + 1,
                             !.form.filename = file.name,
                             !.parser.cur = p]
       IN IF extForbidden(filename, st.options)
          THEN formError([st1 EXCEPT !.parts = Append(@, [file EXCEPT !.status = "rejectedExt"])],
                         "ExtForbidden", p)
          ELSE IF typeForbidden(mime, st.options)
          THEN formError([st1 EXCEPT !.parts = Append(@, [file EXCEPT !.status = "rejectedType"])],
                         "TypeForbidden", p)
          ELSE [st1 EXCEPT
                  !.parts = Append(@, [file EXCEPT
                     !.status = "accepted",
                     !.max = resolveMaxFileSize(st.options, fnRet),
                     !.fnRet = fnRet,
                     !.fnCalls = IF st.options.maxFileSize.kind = "function" THEN 1 ELSE 0,
                     !.wr = "opening"]),
                  !.form.writer = p,
                  !.blog = Append(@, [op |-> "upload", name |-> file.name,
                                      target |-> p, by |-> p])]

\* the comparison off by one: a part of exactly maxFileSize bytes is rejected
sizeExceededOffByOne(fileSize, maxFileSize) == fileSize >= maxFileSize

\* fileSize > maxFileSize
sizeExceeded(fileSize, maxFileSize) == fileSize > maxFileSize

\* part.on('data', ...) of a file part: size metering (when maxFileSize is
\* truthy), then the digests, then the pipe to the writer
onFileData(st, p, len) ==
  LET part == st.parts[p]
      n == Len(part.lens) + 1
      st1 == [st EXCEPT !.parts[p].lens = Append(@, len)]
  IN IF ~Truthy(part.max) THEN st1
     ELSE LET size == part.fileSize + len
              st2 == [st1 EXCEPT !.parts[p].fileSize = size, !.parts[p].sizeSet = TRUE]
          IN IF sizeExceeded(size, part.max)
             THEN formError([st2 EXCEPT !.parts[p].sizeErrAt =
                                          IF @ = 0 THEN n ELSE @],
                            "SizeExceeded", p)
             ELSE st2

\* the File record reported at end-of-input, without waiting for 'success'
onFileEndReportsFile(st, p) ==
  endFunc([st EXCEPT !.parts[p].endCalled = TRUE, !.parts[p].digest = TRUE], p)

\* part.on('end', ...) of a file part: writer.end() and the digests
onFileEnd(st, p) ==
  [st EXCEPT !.parts[p].endCalled = TRUE, !.parts[p].digest = TRUE]

\* part.on('data', ...) of a field part: the chunk counts towards
\* maxFieldsSize and, within the limit, is appended to the value
onFieldData(st, p, len) ==
  LET size == st.form.fieldsSize + len
      st1 == [st EXCEPT !.form.fieldsSize = size, !.parts[p].lens = Append(@, len)]
  IN IF size > MaxFieldsSize
     THEN formError(st1, "FieldsSizeExceeded", p)
     ELSE [st1 EXCEPT !.parts[p].value = Append(@, len)]

\* the value of a field replaces the values the field had
onFieldEndOverwrites(st, p) ==
  [st EXCEPT !.fields =
     SelectSeq(@, LAMBDA e : e[1] # st.parts[p].field)
       \o <<<<st.parts[p].field, st.parts[p].value>>>>]

\* part.on('end', ...) of a field part: values.push(value)
onFieldEnd(st, p) ==
  [st EXCEPT !.fields = Append(@, <<st.parts[p].field, st.parts[p].value>>)]

(***************************************************************************)
(* Upload handler: actions                                                 *)
(***************************************************************************)
\* The parser runs inside form.write(buffer), which returns at once when
\* the form has failed (this.error); within the buffer in which it failed
\* the parser goes on to deliver what the buffer holds.
ParserRuns == ~upForm.error \/ upParser.failedInBuffer

\* a parser event has run: note whether the form has failed in this buffer
UpSetSync(st) == UpSet([st EXCEPT !.parser.failedInBuffer = st.form.error])

\* an event from outside the parser has run: the buffer, if any, is over
UpSetAsync(st) == UpSet([st EXCEPT !.parser.failedInBuffer = FALSE])

\* the parser found the headers of a part
UpPartBegin ==
  /\ ParserRuns /\ ~upParser.reqEnded
  /\ upParser.cur = 0 /\ Len(upParts) < MaxParts
  /\ \E k \in UpPartKinds, fnRet \in MaxFileSizeReturns :
       /\ (upOptions.maxFileSize.kind # "function" \/ k.filename = <<>>)
            => fnRet = NoValue
       /\ UpSetSync(handlePart(UpState, k.field, k.filename, k.mime, fnRet))

\* the parser found a chunk of the current part's body
UpPartData ==
  /\ ParserRuns /\ upParser.cur # 0
  /\ upParts[upParser.cur].status \in {"accepted", "field"}
  /\ Len(upParts[upParser.cur].lens) < MaxChunks
  /\ \E len \in ChunkLens :
       LET p == upParser.cur
       IN IF upParts[p].status = "accepted"
          THEN UpSetSync(onFileData(UpState, p, len))
          ELSE UpSetSync(onFieldData(UpState, p, len))

\* the parser found the end of the current part
UpPartEnd ==
  /\ ParserRuns /\ upParser.cur # 0
  /\ LET p == upParser.cur
         st == [UpState EXCEPT !.parts[p].ended = TRUE, !.parser.cur = 0]
     IN CASE upParts[p].status = "accepted" -> UpSetSync(onFileEnd(st, p))
          [] upParts[p].status = "field" -> UpSetSync(onFieldEnd(st, p))
          [] OTHER -> UpSetSync(st)

\* req.on('end'): the parser ends after the last part; ended, then _maybeEnd
UpReqEnd ==
  /\ upParser.cur = 0 /\ ~upParser.reqEnded
  /\ LET st == [UpState EXCEPT !.parser.reqEnded = TRUE]
     IN IF upForm.error THEN UpSetAsync(st)
        ELSE UpSetAsync(maybeEnd([st EXCEPT !.form.ended = TRUE]))

\* the open of part p's write stream completes: the object exists from now
\* on, also when the stream was destroyed in the meantime (it is then closed)
UpWriterOpened(p) ==
  /\ upParts[p].wr = "opening"
  /\ UpSetAsync([UpState EXCEPT !.parts[p].wr = "open",
                                !.store = @ \cup {upParts[p].name}])

\* the backend signals 'error' on part p's write stream:
\* writer.on('error', function(err) { self.emit('error', err); })
UpWriterError(p) ==
  /\ upParts[p].wr \in {"opening", "open"} /\ ~upParts[p].destroyed
  /\ UpSetAsync(emitError([UpState EXCEPT !.parts[p].wr = "errored",
                                          !.parts[p].destroyed = TRUE],
                          "WriterError", p))

\* the backend signals 'success' on part p's write stream, after end()
UpWriterSuccess(p) ==
  /\ upParts[p].wr = "open" /\ upParts[p].endCalled /\ ~upParts[p].destroyed
  /\ UpSetAsync(endFunc([UpState EXCEPT !.parts[p].wr = "finished"], p))

\* the backend completes a removeFile: fs.unlink
UpRemoveDone(op) ==
  /\ op \in upPending
  /\ UpSetAsync([UpState EXCEPT !.ops = @ \ {op}, !.store = @ \ {op.name}])

InitUpload ==
  /\ NameIdle
  /\ FsIdle
  /\ DlIdle
  /\ CuIdle
  /\ upOptions \in UploadOptions
  /\ upParser = NoParser
  /\ upForm = NoForm
  /\ upParts = <<>>
  /\ upFiles = <<>>
  /\ upFields = <<>>
  /\ upCb = <<>>
  /\ upBackendLog = <<>>
  /\ upPending = {}
  /\ upStore \in {{}, {<<"a", ".", "j">>}}

NextUpload ==
  \/ UpPartBegin
  \/ UpPartData
  \/ UpPartEnd
  \/ UpReqEnd
  \/ \E p \in 1..Len(upParts) : UpWriterOpened(p)
  \/ \E p \in 1..Len(upParts) : UpWriterError(p)
  \/ \E p \in 1..Len(upParts) : UpWriterSuccess(p)
  \/ \E op \in upPending : UpRemoveDone(op)

SpecUpload == InitUpload /\ [][NextUpload]_vars

(***************************************************************************)
(* Upload handler: properties                                              *)
(***************************************************************************)
PartFailed(p) ==
  \/ upParts[p].status \in {"rejectedExt", "rejectedType"}
  \/ upParts[p].sizeErrAt # 0
  \/ upParts[p].wr = "errored"

\* C3: the upload's callback is invoked exactly once: never a second time,
\* and never with a result when a part of the upload has failed.
C3_CallbackAtMostOnce ==
  /\ Len(upCb) <= 1
  /\ \A i \in 1..Len(upCb) :
       upCb[i].ok => \A p \in 1..Len(upParts) : ~PartFailed(p)

\* C4: a File record is in the result only if its part has ended, its digests
\* are final and its writer has signalled 'success'; and the callback has
\* been given a result only if no accepted part still waits for 'success'.
C4_FileReportedOnlyWhenPersisted ==
  /\ \A i \in 1..Len(upFiles) :
       LET p == upFiles[i][2]
       IN upParts[p].ended /\ upParts[p].digest /\ upParts[p].wr = "finished"
  /\ (\E i \in 1..Len(upCb) : upCb[i].ok) =>
       \A p \in 1..Len(upParts) :
         upParts[p].status = "accepted" => upParts[p].wr = "finished"

\* two file parts persisted and the result delivered
C4_Witness ==
  /\ Len(upFiles) = 2
  /\ upCb = <<[err |-> "", ok |-> TRUE, statusCode |-> NoValue]>>

\* C7: a part rejected for its extension or content type causes no backend
\* operation: no write stream is opened for it and no removeFile is issued.
C7_RejectedPartNoBackendOp ==
  \A i \in 1..Len(upBackendLog) :
    LET e == upBackendLog[i]
    IN upParts[e.by].status \in {"rejectedExt", "rejectedType"} =>
         e.op \notin {"upload", "removeFile"}

\* C8: when a part fails while streaming (size exceeded, writer error), the
\* stream destroyed is that part's stream and the object removed is that
\* part's object.
C8_CleanupHitsFailingPart ==
  \A i \in 1..Len(upBackendLog) :
    LET e == upBackendLog[i]
    IN (e.op \in {"destroy", "removeFile"} /\ upParts[e.by].status = "accepted") =>
         /\ e.name = upParts[e.by].name
         /\ e.op = "destroy" => e.target = e.by

\* the part whose size error failed the upload
SizeFailedParts ==
  {p \in 1..Len(upParts) :
     /\ upParts[p].sizeErrAt # 0
     /\ \E i \in 1..Len(upBackendLog) :
          upBackendLog[i].by = p /\ upBackendLog[i].op = "removeFile"}

BackendQuiet ==
  /\ upPending = {}
  /\ \A p \in 1..Len(upParts) : upParts[p].wr # "opening"

\* C9: once an upload has failed with maxFileSize exceeded and the backend
\* has completed everything the upload issued, no object is left under the
\* failing part's stored name.
C9_NoResidualObject ==
  (upCb # <<>> /\ upCb[1].err = "SizeExceeded" /\ BackendQuiet) =>
     \A p \in SizeFailedParts : upParts[p].name \notin upStore

RECURSIVE SumTo(_, _)
SumTo(lens, k) == IF k = 0 THEN 0 ELSE lens[k] + SumTo(lens, k - 1)

\* the first chunk after which the running byte count exceeds m; 0 if none
FirstExceeding(lens, m) ==
  LET over == {k \in 1..Len(lens) : SumTo(lens, k) > m}
  IN IF over = {} THEN 0 ELSE CHOOSE k \in over : \A j \in over : k <= j

\* the effective maxFileSize as the claim has it: the configured number, the
\* function's result, or 10 MiB when maxFileSize is not configured
ClaimedMax(p) ==
  IF upOptions.given.kind = "unset" THEN DefaultMaxFileSize
  ELSE IF upOptions.given.kind = "number" THEN upOptions.given.n
  ELSE upParts[p].fnRet

\* C10 as stated: a part is rejected for size at the first chunk after which
\* its byte count exceeds the effective maxFileSize, and never otherwise.
C10_RejectedAtFirstExceedingChunk ==
  \A p \in 1..Len(upParts) :
    upParts[p].status = "accepted" =>
      upParts[p].sizeErrAt =
        (IF ClaimedMax(p) = NoValue THEN 0
         ELSE FirstExceeding(upParts[p].lens, ClaimedMax(p)))

\* the effective maxFileSize of the code: a configured 0 counts as not
\* configured, and a function result of 0 or undefined as no limit (NoValue)
EffectiveMax(p) ==
  IF upOptions.given.kind = "unset" THEN DefaultMaxFileSize
  ELSE IF upOptions.given.kind = "number"
       THEN (IF upOptions.given.n = 0 THEN DefaultMaxFileSize ELSE upOptions.given.n)
       ELSE (IF upParts[p].fnRet = 0 THEN NoValue ELSE upParts[p].fnRet)

\* C10 amended: the same with that effective value; the function is evaluated
\* once per part, and a size rejection means the upload has reported an error.
C10_RejectedAtFirstExceedingChunkAmended ==
  \A p \in 1..Len(upParts) :
    upParts[p].status = "accepted" =>
      /\ upParts[p].sizeErrAt =
           (IF EffectiveMax(p) = NoValue THEN 0
            ELSE FirstExceeding(upParts[p].lens, EffectiveMax(p)))
      /\ upParts[p].fnCalls = (IF upOptions.given.kind = "function" THEN 1 ELSE 0)
      /\ upParts[p].sizeErrAt # 0 => (upCb # <<>> /\ ~upCb[1].ok)

\* with maxFileSize not configured, a part is rejected at its second chunk,
\* when it has delivered 10 MiB + 1 bytes, and the upload fails with that error
C10_Witness ==
  /\ upOptions.given.kind = "unset"
  /\ \E p \in 1..Len(upParts) :
       /\ upParts[p].sizeErrAt = 2
       /\ SumTo(upParts[p].lens, 2) = DefaultMaxFileSize + 1
  /\ upCb = <<[err |-> "SizeExceeded", ok |-> FALSE, statusCode |-> NoValue]>>

(***************************************************************************)
(* Download handler (storage-handler.js exports.download) over the         *)
(* filesystem provider's getFile and download                              *)
(***************************************************************************)
\* size of the stored file; the byte at offset k has the value k
DlSize == 3

\* JavaScript numbers as the handler sees them: a number, NaN or undefined
Num(n) == [nan |-> FALSE, undef |-> FALSE, n |-> n]
NaN == [nan |-> TRUE, undef |-> FALSE, n |-> 0]
JsTruthy(v) == ~v.nan /\ ~v.undef /\ v.n # 0

Digits == <<"0", "1", "2", "3", "4", "5", "6", "7", "8", "9">>
IsDigit(c) == \E i \in 1..Len(Digits) : Digits[i] = c
DigitValue(c) == (CHOOSE i \in 1..Len(Digits) : Digits[i] = c) - 1

RECURSIVE DigitsValue(_)
DigitsValue(s) ==
  IF s = <<>> THEN 0
  ELSE DigitsValue(SubSeq(s, 1, Len(s) - 1)) * 10 + DigitValue(s[Len(s)])

\* parseInt(s, 10): the value of the leading digits, NaN when there are none
parseInt(s) ==
  LET n == CHOOSE k \in 0..Len(s) :
             /\ \A i \in 1..k : IsDigit(s[i])
             /\ k < Len(s) => ~IsDigit(s[k + 1])
  IN IF n = 0 THEN NaN ELSE Num(DigitsValue(SubSeq(s, 1, n)))

RangePrefix == <<"b", "y", "t", "e", "s", "=">>

\* range.replace(/bytes=/, ''): the first occurrence removed
replaceBytes(range) ==
  LET at == {i \in 1..Len(range) :
               /\ i + Len(RangePrefix) - 1 <= Len(range)
               /\ SubSeq(range, i, i + Len(RangePrefix) - 1) = RangePrefix}
  IN IF at = {} THEN range
     ELSE LET i == CHOOSE k \in at : \A j \in at : k <= j
          IN SubSeq(range, 1, i - 1) \o
             SubSeq(range, i + Len(RangePrefix), Len(range))

\* s.split('-')
RECURSIVE split(_)
split(s) ==
  LET at == {i \in 1..Len(s) : s[i] = "-"}
  IN IF at = {} THEN <<s>>
     ELSE LET i == CHOOSE k \in at : \A j \in at : k <= j
          IN <<SubSeq(s, 1, i - 1)>> \o split(SubSeq(s, i + 1, Len(s)))

\* the header 'bytes=<s>-<e>'
RangeHeader(s, e) == RangePrefix \o <<Digits[s + 1], "-", Digits[e + 1]>>

\* the headers: none, 'bytes=1-', 'bytes=-1', every 'bytes=<s>-<e>' within
\* the file, and 'bytes=1-<size>' and 'bytes=1-<size + 1>' reaching beyond it
DlRanges ==
  {<<>>, RangePrefix \o <<"1", "-">>, RangePrefix \o <<"-", "1">>}
    \cup {RangeHeader(s, e) : s \in 0..(DlSize - 1), e \in 0..(DlSize - 1)}
    \cup {RangeHeader(1, DlSize), RangeHeader(1, DlSize + 1)}

DlNames == {<<"a">>, <<".", ".">>}

\* req.params of the request
ReqParams == [container |-> <<"b">>, file |-> <<"g">>]

\* a call with both arguments
DlRequest(k, r, c) ==
  [kind |-> k, range |-> r, container |-> c, remote |-> <<"f">>,
   containerGiven |-> TRUE, fileGiven |-> TRUE, params |-> ReqParams]

\* the calls: with both arguments, and with the container or the file
\* argument omitted (undefined)
DlRequests ==
  {DlRequest(k, <<>>, c) : k \in {"absent", "noHeaders"}, c \in DlNames}
    \cup {DlRequest("headers", r, c) : r \in DlRanges, c \in DlNames}
    \cup {[DlRequest("headers", r, <<"a">>) EXCEPT
             !.containerGiven = g[1], !.fileGiven = g[2],
             !.container = IF g[1] THEN @ ELSE <<>>,
             !.remote = IF g[2] THEN @ ELSE <<>>] :
           r \in {<<>>, RangePrefix \o <<"1", "-">>},
           g \in {<<FALSE, TRUE>>, <<TRUE, FALSE>>, <<FALSE, FALSE>>}}

\* an invocation of cb: the handler's callback until the reader handlers
\* replace it by the no-op
dlInvoke(cbs, live, err) == IF live THEN Append(cbs, err) ELSE cbs

\* the errors of the backend: err names the error object, message is its
\* text; the message of a filesystem error has the absolute path in it
Root == "ROOT"
FsError(code, container, file) ==
  [err |-> code, code |-> code, status |-> 0,
   message |-> <<code, ": no such file or directory, open '", Root, "/">>
                 \o container \o <<"/">> \o file \o <<"'">>]
ReadError ==
  [err |-> "EIO", code |-> "EIO", status |-> 0, message |-> <<"EIO: i/o error, read">>]
InvalidNameError(name) ==
  [err |-> "InvalidName", code |-> "", status |-> 0,
   message |-> <<"FileSystemProvider: Invalid name: ">> \o name]
RangeError ==
  [err |-> "RangeError", code |-> "ERR_OUT_OF_RANGE", status |-> 0,
   message |-> <<"The value of \"start\" is out of range.">>]

\* err.statusCode = err.status = 404
NotFound == 404

\* the status set, the message of the backend kept
processErrorKeepsMessage(err, fileName) ==
  IF err.code = "ENOENT" THEN [err EXCEPT !.status = NotFound] ELSE err

\* processError(err, fileName)
processError(err, fileName) ==
  IF err.code = "ENOENT"
  THEN [err EXCEPT !.status = NotFound,
                   !.message = <<"File not found: ">> \o fileName]
  ELSE err

\* Content-Length computed as end - start
setupPartialDownloadExclusive(range, total) ==
  LET parts == split(replaceBytes(range))
      start == parseInt(parts[1])
      end == IF Len(parts) >= 2 /\ parts[2] # <<>> THEN parseInt(parts[2])
             ELSE Num(total - 1)
  IN [params |-> [start |-> start, end |-> end],
      res |-> [status |-> "206",
               contentLength |-> IF start.nan \/ end.nan THEN NaN
                                 ELSE Num(end.n - start.n),
               contentRange |-> <<start, end, Num(total)>>,
               acceptRanges |-> "bytes", body |-> <<>>]]

\* setupPartialDownload(params, stats, res)
setupPartialDownload(range, total) ==
  LET parts == split(replaceBytes(range))
      partialstart == parts[1]
      partialend == IF Len(parts) >= 2 THEN parts[2] ELSE <<>>
      start == parseInt(partialstart)
      end == IF partialend # <<>> THEN parseInt(partialend) ELSE Num(total - 1)
      chunksize == IF start.nan \/ end.nan THEN NaN
                   ELSE Num((end.n - start.n) + 1)
  IN [params |-> [start |-> start, end |-> end],
      res |-> [status |-> "206", contentLength |-> chunksize,
               contentRange |-> <<start, end, Num(total)>>,
               acceptRanges |-> "bytes", body |-> <<>>]]

\* FileSystemProvider.prototype.download(options) without a callback: the
\* stream it returns
\* res: the response as it is when the handler makes the call
providerDownload(sep, params, res) ==
  LET rd == [NoReader EXCEPT !.target = <<params.container, params.remote>>,
                             !.res = res]
  IN IF ~validateName(params.container, sep)
     THEN [rd EXCEPT !.kind = "error", !.err = InvalidNameError(params.container)]
     ELSE IF ~validateName(params.remote, sep)
     THEN [rd EXCEPT !.kind = "error", !.err = InvalidNameError(params.remote)]
     ELSE LET bounded == JsTruthy(params.start)
              first == IF bounded THEN params.start.n ELSE 0
              last == IF bounded THEN params.end ELSE Undefined
              throws == last.nan \/ (~last.undef /\ first > last.n)
          IN IF throws THEN [rd EXCEPT !.kind = "error", !.err = RangeError]
             ELSE [rd EXCEPT !.kind = "file", !.first = first,
                             !.last = last, !.pos = first]

\* the last offset the file stream delivers
LastOffset(r) ==
  IF r.last.undef \/ r.last.n > DlSize - 1 THEN DlSize - 1 ELSE r.last.n

\* container || req && req.params.container, file || req && req.params.file
resolveParams(req) ==
  [NoParams EXCEPT
     !.container = IF req.containerGiven THEN req.container
                   ELSE IF req.kind # "absent" THEN req.params.container ELSE <<>>,
     !.remote = IF req.fileGiven THEN req.remote
                ELSE IF req.kind # "absent" THEN req.params.file ELSE <<>>]

\* exports.download: path.basename(file) throws when file is undefined
DlCall ==
  /\ dlPc = "idle"
  /\ IF ~dlReq.fileGiven
     THEN /\ dlPc' = "thrown"
          /\ UNCHANGED <<dlReader, dlParams>>
     ELSE IF dlReq.kind = "absent"
     THEN /\ dlPc' = "done"
          /\ dlParams' = resolveParams(dlReq)
          /\ UNCHANGED dlReader
     ELSE IF dlReq.kind = "noHeaders" \/ dlReq.range = <<>>
     THEN /\ dlPc' = "streaming"
          /\ dlParams' = resolveParams(dlReq)
          /\ dlReader' = providerDownload(dlSep, resolveParams(dlReq), dlRes)
     ELSE /\ dlPc' = "getFile"
          /\ dlParams' = resolveParams(dlReq)
          /\ UNCHANGED dlReader
  /\ UNCHANGED <<dlSep, dlReq, dlStored, dlRes, dlCb, dlCbLive, notDlVars>>

\* the callback handed to provider.getFile
DlGetFileDone ==
  /\ dlPc = "getFile"
  /\ IF ~validateName(dlParams.container, dlSep) \/ ~validateName(dlParams.remote, dlSep)
     THEN /\ dlCb' = dlInvoke(dlCb, dlCbLive,
                     processError(InvalidNameError(
                        IF ~validateName(dlParams.container, dlSep)
                        THEN dlParams.container ELSE dlParams.remote),
                                  dlParams.remote))
          /\ dlPc' = "done"
          /\ UNCHANGED <<dlParams, dlRes, dlReader>>
     ELSE IF ~dlStored
     THEN /\ dlCb' = dlInvoke(dlCb, dlCbLive,
                     processError(FsError("ENOENT", dlParams.container, dlParams.remote),
                                  dlParams.remote))
          /\ dlPc' = "done"
          /\ UNCHANGED <<dlParams, dlRes, dlReader>>
     ELSE LET set == setupPartialDownload(dlReq.range, DlSize)
              params == [dlParams EXCEPT !.start = set.params.start,
                                         !.end = set.params.end]
          IN /\ dlParams' = params
             /\ dlRes' = set.res
             /\ dlReader' = providerDownload(dlSep, params, set.res)
             /\ dlPc' = "streaming"
             /\ UNCHANGED dlCb
  /\ UNCHANGED <<dlSep, dlReq, dlStored, dlCbLive, notDlVars>>

\* the file is removed by someone else before the stream has opened it
DlFileRemoved ==
  /\ dlStored
  /\ dlPc \in {"getFile", "streaming"}
  /\ ~dlReader.open
  /\ dlStored' = FALSE
  /\ UNCHANGED <<dlSep, dlReq, dlPc, dlParams, dlRes, dlReader, dlCb, dlCbLive,
                 notDlVars>>

\* reader.on('error', onReaderError)
onReaderError(err) ==
  /\ dlCb' = dlInvoke(dlCb, dlCbLive, processError(err, dlParams.remote))
  /\ dlCbLive' = FALSE

\* reader.on('end', onReaderEnd)
onReaderEnd ==
  /\ dlCb' = dlInvoke(dlCb, dlCbLive, NoError)
  /\ dlCbLive' = FALSE

\* process.nextTick of streamError: the error stream emits 'error'
DlReaderTick ==
  /\ dlReader.kind = "error"
  /\ ~dlReader.errored
  /\ dlReader' = [dlReader EXCEPT !.errored = TRUE]
  /\ onReaderError(dlReader.err)
  /\ UNCHANGED <<dlSep, dlReq, dlStored, dlPc, dlParams, dlRes, notDlVars>>

\* fs.createReadStream opens the file
DlReaderOpen ==
  /\ dlReader.kind = "file"
  /\ ~dlReader.open
  /\ ~dlReader.errored
  /\ IF dlStored
     THEN /\ dlReader' = [dlReader EXCEPT !.open = TRUE]
          /\ UNCHANGED <<dlCb, dlCbLive>>
     ELSE /\ dlReader' = [dlReader EXCEPT !.errored = TRUE]
          /\ onReaderError(FsError("ENOENT", dlParams.container, dlParams.remote))
  /\ UNCHANGED <<dlSep, dlReq, dlStored, dlPc, dlParams, dlRes, notDlVars>>

\* reader.pipe(res): the next byte of the window goes to the response
DlReaderData ==
  /\ dlReader.open
  /\ ~dlReader.ended
  /\ ~dlReader.errored
  /\ dlReader.pos <= LastOffset(dlReader)
  /\ dlRes' = [dlRes EXCEPT !.body = Append(@, dlReader.pos)]
  /\ dlReader' = [dlReader EXCEPT !.pos = @ + 1]
  /\ UNCHANGED <<dlSep, dlReq, dlStored, dlPc, dlParams, dlCb, dlCbLive,
                 notDlVars>>

\* the stream emits 'end': after its last byte, or after an 'error'
DlReaderEnd ==
  /\ dlReader.kind # "none"
  /\ ~dlReader.ended
  /\ \/ dlReader.open /\ dlReader.pos > LastOffset(dlReader)
     \/ dlReader.errored
  /\ dlReader' = [dlReader EXCEPT !.ended = TRUE]
  /\ onReaderEnd
  /\ UNCHANGED <<dlSep, dlReq, dlStored, dlPc, dlParams, dlRes, notDlVars>>

\* the open stream emits 'error': while reading, or after its 'end'
DlReaderError ==
  /\ dlReader.open
  /\ ~dlReader.errored
  /\ dlReader' = [dlReader EXCEPT !.errored = TRUE]
  /\ onReaderError(ReadError)
  /\ UNCHANGED <<dlSep, dlReq, dlStored, dlPc, dlParams, dlRes, notDlVars>>

InitDownload ==
  /\ NameIdle
  /\ FsIdle
  /\ UpIdle
  /\ CuIdle
  /\ dlSep \in PathSeps
  /\ dlReq \in DlRequests
  /\ dlStored \in BOOLEAN
  /\ dlPc = "idle"
  /\ dlParams = NoParams
  /\ dlRes = NoResponse
  /\ dlReader = NoReader
  /\ dlCb = <<>>
  /\ dlCbLive = TRUE

NextDownload ==
  \/ DlCall
  \/ DlGetFileDone
  \/ DlFileRemoved
  \/ DlReaderTick
  \/ DlReaderOpen
  \/ DlReaderData
  \/ DlReaderEnd
  \/ DlReaderError

SpecDownload == InitDownload /\ [][NextDownload]_vars

(***************************************************************************)
(* Download handler: properties                                            *)
(***************************************************************************)
\* the bytes at the offsets a..b
Window(a, b) == [i \in 1..(b - a + 1) |-> a + i - 1]

\* C5: a download with the header 'bytes=<s>-<e>', 0 <= s <= e < size, whose
\* stream has ended without an error has sent exactly the bytes s..e.
C5_RangeWindowStreamed ==
  \A s \in 0..(DlSize - 1), e \in 0..(DlSize - 1) :
    (/\ s <= e
     /\ dlReq.kind = "headers"
     /\ dlReq.range = RangeHeader(s, e)
     /\ dlReader.ended
     /\ ~dlReader.errored) => dlRes.body = Window(s, e)

\* nothing of the download is still to happen
DlSettled == dlPc \in {"done", "thrown"} \/ dlReader.ended \/ dlReader.errored

\* C6: the download's callback is invoked exactly once: never twice, and once
\* when the download is over; with an error iff the download failed.
C6_CallbackExactlyOnce ==
  /\ Len(dlCb) <= 1
  /\ DlSettled => Len(dlCb) = 1
  /\ (dlCb # <<>> /\ dlReader.ended /\ ~dlReader.errored) => dlCb[1].err = ""

(***************************************************************************)
(* Upload handler: properties of validation, naming and fields             *)
(***************************************************************************)
FileParts == {p \in 1..Len(upParts) : upParts[p].filename # <<>>}
FieldParts == {p \in 1..Len(upParts) : upParts[p].filename = <<>>}
Rejected(p) == upParts[p].status \in {"rejectedExt", "rejectedType"}

\* a rejection is reported: the upload's callback has been given an error,
\* and that of the first part when the first part is the one rejected
RejectionReported(p, err) ==
  /\ upCb # <<>>
  /\ ~upCb[1].ok
  /\ p = 1 => upCb[1].err = err

\* C11 as stated: with allowedContentTypes configured (a list, or a function
\* returning one) a file part whose type is not in the list is rejected, and
\* one whose type is in the list is not rejected for its type.
C11_TypeNotInListRejected ==
  \A p \in FileParts :
    upOptions.allowedContentTypes.kind # "unset" =>
      IF upParts[p].mime \in upOptions.allowedContentTypes.list
      THEN upParts[p].status # "rejectedType"
      ELSE Rejected(p)

\* C11 amended: the same for a list that is not empty; with the empty list,
\* as with no list, no part is rejected for its type. A rejection for the
\* type is reported as an error of the upload.
C11_TypeNotInListRejectedAmended ==
  \A p \in FileParts :
    /\ IF /\ upOptions.allowedContentTypes.kind # "unset"
          /\ upOptions.allowedContentTypes.list # {}
          /\ upParts[p].mime \notin upOptions.allowedContentTypes.list
       THEN Rejected(p)
       ELSE upParts[p].status # "rejectedType"
    /\ upParts[p].status = "rejectedType" => RejectionReported(p, "TypeForbidden")

\* allowedContentTypes is a function returning ['image/jpeg']: a text/plain
\* part is rejected for its type after an image/jpeg part was accepted
C11_Witness ==
  /\ upOptions.allowedContentTypes.kind = "function"
  /\ Len(upParts) = 2
  /\ upParts[1].status = "accepted" /\ upParts[1].mime = "image/jpeg"
  /\ upParts[2].status = "rejectedType" /\ upParts[2].mime = "text/plain"

\* the extension of the original filename is in forbidExtnames, letter case
\* aside
OriginalExtForbidden(p) ==
  \E t \in upOptions.forbidExtnames :
    toLowerCase(t) = toLowerCase(extname(upParts[p].filename))

\* C12: a file part is rejected for its extension iff the extension of its
\* original filename is in forbidExtnames, compared case-insensitively,
\* whatever name getFilename or makeUnique gives it; the rejection is
\* reported as an error of the upload.
C12_ForbiddenExtensionRejected ==
  \A p \in FileParts :
    /\ upParts[p].status = "rejectedExt" <=> OriginalExtForbidden(p)
    /\ upParts[p].status = "rejectedExt" => RejectionReported(p, "ExtForbidden")

\* forbidExtnames ['.h'] and a getFilename appending '.h': 'a.j' is accepted
\* and stored as 'a.j.h', 'b.H' is rejected
C12_Witness ==
  /\ upOptions.getFilename = "append"
  /\ Len(upParts) = 2
  /\ upParts[1].status = "accepted" /\ extname(upParts[1].name) = <<".", "h">>
  /\ upParts[2].status = "rejectedExt" /\ extname(upParts[2].filename) = <<".", "H">>

\* the request was parsed to its end and nothing of the upload has failed
ParsedWithoutError ==
  /\ upParser.reqEnded
  /\ ~upForm.error
  /\ \A p \in 1..Len(upParts) : ~PartFailed(p)

AcceptedParts == {p \in FileParts : upParts[p].status = "accepted"}

\* C13: a body parsed to its end without error and without an accepted file
\* part gives the callback the 400 'no file' error, and only such a body
\* does; once all its accepted parts (at least one) are persisted the
\* callback has the result with no error.
C13_NoFileIsBadRequest ==
  /\ \A i \in 1..Len(upCb) :
       /\ upCb[i].err = "NoFile" =>
            upCb[i].statusCode = BadRequest /\ AcceptedParts = {} /\ upParser.reqEnded
       /\ upCb[i].ok => Len(upFiles) >= 1
  /\ (ParsedWithoutError /\ AcceptedParts = {}) =>
       upCb = <<[err |-> "NoFile", ok |-> FALSE, statusCode |-> BadRequest]>>
  /\ (ParsedWithoutError /\ AcceptedParts # {}
        /\ \A p \in AcceptedParts : upParts[p].wr = "finished") =>
       upCb = <<[err |-> "", ok |-> TRUE, statusCode |-> NoValue]>>

\* a request with two plain fields and no file has ended
C13_Witness ==
  /\ Len(upParts) = 2 /\ FileParts = {}
  /\ upCb = <<[err |-> "NoFile", ok |-> FALSE, statusCode |-> BadRequest]>>

\* C14: the stored name is getFilename's result when getFilename is given,
\* else a name of its own with the original extension under makeUnique, else
\* the original filename; the backend write is opened under the stored name,
\* originalFilename is recorded whenever the stored name differs from the
\* original and is absent when neither option is configured.
C14_StoredName ==
  /\ \A p \in FileParts :
       LET f == upParts[p]
       IN /\ upOptions.getFilename = "prefix" => f.name = <<"i">> \o f.filename
          /\ upOptions.getFilename = "append" => f.name = f.filename \o <<".", "h">>
          /\ (upOptions.getFilename = "none" /\ upOptions.nameConflict = "makeUnique") =>
               /\ extname(f.name) = extname(f.filename)
               /\ f.name # f.filename
               /\ \A q \in FileParts : q # p => upParts[q].name # f.name
          /\ (upOptions.getFilename = "none" /\ upOptions.nameConflict = "none") =>
               f.name = f.filename /\ ~f.hasOriginal
          /\ f.name # f.filename => f.hasOriginal /\ f.originalFilename = f.filename
  /\ \A i \in 1..Len(upBackendLog) :
       upBackendLog[i].op = "upload" =>
         /\ upBackendLog[i].name = upParts[upBackendLog[i].by].name
         /\ upParts[upBackendLog[i].by].status = "accepted"
  /\ \A i \in 1..Len(upFiles) : upFiles[i][2] \in AcceptedParts

\* getFilename and makeUnique both configured: a file is persisted under
\* getFilename's name and reported with its original name recorded
C14_Witness ==
  /\ upOptions.getFilename = "append" /\ upOptions.nameConflict = "makeUnique"
  /\ Len(upFiles) = 1
  /\ upParts[upFiles[1][2]].name = <<"a", ".", "j", ".", "h">>
  /\ upParts[upFiles[1][2]].originalFilename = <<"a", ".", "j">>
  /\ upParts[upFiles[1][2]].name \in upStore

\* the <<name, value>> of the field parts among the first k parts that ended
RECURSIVE EndedFields(_)
EndedFields(k) ==
  IF k = 0 THEN <<>>
  ELSE IF upParts[k].filename = <<>> /\ upParts[k].ended
       THEN Append(EndedFields(k - 1), <<upParts[k].field, upParts[k].value>>)
       ELSE EndedFields(k - 1)

RECURSIVE FieldBytes(_)
FieldBytes(k) ==
  IF k = 0 THEN 0
  ELSE FieldBytes(k - 1) +
       (IF upParts[k].filename = <<>> THEN SumTo(upParts[k].lens, Len(upParts[k].lens))
        ELSE 0)

\* C15: a part without filename opens no write stream; the fields hold one
\* value per such part that ended, in arrival order, none overwritten, and
\* the value is the text the part delivered: always while the fields of the
\* request stay within maxFieldsSize, and always in a result given to the
\* callback.
C15_FieldsInArrivalOrder ==
  /\ \A p \in FieldParts :
       /\ upParts[p].status = "field" /\ upParts[p].wr = "none"
       /\ \A i \in 1..Len(upBackendLog) :
            /\ upBackendLog[i].target # p
            /\ upBackendLog[i].op = "upload" => upBackendLog[i].by # p
       /\ FieldBytes(Len(upParts)) <= MaxFieldsSize => upParts[p].value = upParts[p].lens
       /\ (\E i \in 1..Len(upCb) : upCb[i].ok) => upParts[p].value = upParts[p].lens
  /\ upFields = EndedFields(Len(upParts))

\* two values of the field 'f', the first of two chunks
C15_Witness ==
  /\ Len(upFields) = 2
  /\ upFields[1] = <<"f", <<1, 1>>>>
  /\ upFields[2] = <<"f", <<1>>>>

RangeRequest == dlReq.kind = "headers" /\ dlReq.range # <<>> /\ dlReq.fileGiven

\* C19: for a request with a Range header nothing is set and no read stream
\* exists before the metadata are there; the read stream is opened with 206,
\* Content-Range 'bytes <start>-<end>/<size>', Accept-Ranges 'bytes' and
\* Content-Length = end - start + 1 already set (end = size - 1 when the
\* upper bound is omitted); when the lookup fails no header is set and no
\* read stream is opened.
C19_HeadersBeforeStream ==
  RangeRequest =>
    /\ dlPc \in {"getFile", "done"} => (dlRes = NoResponse /\ dlReader = NoReader)
    /\ dlReader.kind # "none" =>
         /\ dlReader.res.status = "206"
         /\ dlReader.res.acceptRanges = "bytes"
         /\ dlReader.res.contentRange = dlRes.contentRange
         /\ dlReader.res.contentLength = dlRes.contentLength
         /\ dlRes.status = "206"
         /\ dlRes.contentRange[3] = Num(DlSize)
         /\ \A s \in 0..(DlSize - 1), e \in 0..(DlSize - 1) :
              dlReq.range = RangeHeader(s, e) =>
                /\ dlRes.contentRange = <<Num(s), Num(e), Num(DlSize)>>
                /\ dlRes.contentLength = Num(e - s + 1)
         /\ dlReq.range = RangePrefix \o <<"1", "-">> =>
                /\ dlRes.contentRange = <<Num(1), Num(DlSize - 1), Num(DlSize)>>
                /\ dlRes.contentLength = Num(DlSize - 1)

\* 'bytes=1-' has been served: 206, the bytes from offset 1 to the end
C19_Witness ==
  /\ dlReq.range = RangePrefix \o <<"1", "-">>
  /\ dlReader.ended /\ ~dlReader.errored
  /\ dlRes.status = "206"
  /\ dlRes.contentLength = Num(DlSize - 1)
  /\ dlRes.body = Window(1, DlSize - 1)

\* C20: a call with the container or the file argument omitted takes the
\* identifier from req.params and goes on as with explicit arguments: the
\* read is opened for the resolved pair and the callback is invoked.
C20_OmittedArgumentsResolved ==
  (/\ dlReq.kind # "absent"
   /\ ~dlReq.containerGiven \/ ~dlReq.fileGiven
   /\ dlPc # "idle") =>
     /\ dlPc # "thrown"
     /\ dlParams.container =
          (IF dlReq.containerGiven THEN dlReq.container ELSE dlReq.params.container)
     /\ dlParams.remote =
          (IF dlReq.fileGiven THEN dlReq.remote ELSE dlReq.params.file)
     /\ dlReader.kind # "none" =>
          dlReader.target = <<dlParams.container, dlParams.remote>>
     /\ DlSettled => Len(dlCb) = 1

(***************************************************************************)
(* Upload handler: order and size of the File records                      *)
(***************************************************************************)
\* C27: the File records of one field name are in files[field] in the order
\* in which their parts arrived.
C27_FilesInArrivalOrder ==
  \A i, j \in 1..Len(upFiles) :
    (i < j /\ upFiles[i][1] = upFiles[j][1]) => upFiles[i][2] < upFiles[j][2]

\* the upload's callback was given the result
ResultDelivered == \E i \in 1..Len(upCb) : upCb[i].ok

\* C28: in a result given to the callback every File record has a size, the
\* number of bytes its part delivered.
C28_SizeIsBytesReceived ==
  ResultDelivered =>
    \A i \in 1..Len(upFiles) :
      LET part == upParts[upFiles[i][2]]
      IN /\ part.sizeSet
         /\ part.fileSize = SumTo(part.lens, Len(part.lens))

(***************************************************************************)
(* Filesystem provider: streams for invalid names, resolved paths          *)
(***************************************************************************)
\* C29: download or upload called with a callback and an invalid container
\* or file name emits one 'error' on the stream it returns and invokes the
\* callback at most once.
C29_StreamCallbackAtMostOnce ==
  (/\ fc.op \in {"upload", "download"}
   /\ fc.hasCb
   /\ ~validateName(fc.c, fsSep) \/ ~validateName(fc.f, fsSep)) =>
     /\ Cardinality(LogCallbacks) <= 1
     /\ Cardinality(LogEmits("error")) <= 1
     /\ fc.pc = "done" => Cardinality(LogEmits("error")) = 1

\* C30: a name validateName accepts resolves, as a container, to a direct
\* child of the root and, as a file of the container 'a', to a direct child
\* of that container's directory.
C30_AcceptedNameIsDirectChild ==
  (vnPc = "ret" /\ vnRet) =>
    /\ Len(pathJoin(<<vnName>>, vnSep)) = 1
    /\ Len(pathJoin(<<<<"a">>, vnName>>, vnSep)) = 2
    /\ SubSeq(pathJoin(<<<<"a">>, vnName>>, vnSep), 1, 1) = pathJoin(<<<<"a">>>>, vnSep)

(***************************************************************************)
(* Two uploads sharing the provider, and a download of what they stored    *)
(***************************************************************************)
\* Each upload has one file part; a valid container and file name is the
\* same for both (one object), an invalid one gets writeStreamError.

\* the bodies the file parts may have: sequences of chunks of bytes
CuBodies(u) ==
  IF u = 1 THEN {<<>>, <<<<"p", "q">>>>, <<<<"p">>, <<"q">>>>}
  ELSE {<<>>, <<<<"r">>>>, <<<<"r">>, <<"s">>>>}

\* the bytes of the first k chunks
RECURSIVE Concat(_, _)
Concat(chunks, k) == IF k = 0 THEN <<>> ELSE Concat(chunks, k - 1) \o chunks[k]

\* every chunk written at the start of the file
WriteAtStart(bytes, pos, chunk) ==
  [i \in 1..(IF Len(bytes) > Len(chunk) THEN Len(bytes) ELSE Len(chunk)) |->
     IF i <= Len(chunk) THEN chunk[i] ELSE bytes[i]]

\* fs.write(fd, chunk, ...) at the offset of the stream's descriptor; a gap
\* left by a truncation reads as NUL bytes
WriteAt(bytes, pos, chunk) ==
  [i \in 1..(IF Len(bytes) > pos + Len(chunk) THEN Len(bytes) ELSE pos + Len(chunk)) |->
     IF i > pos /\ i <= pos + Len(chunk) THEN chunk[i - pos]
     ELSE IF i <= Len(bytes) THEN bytes[i]
     ELSE "NUL"]

\* form.handlePart(part) of upload u: writer = provider.upload(uploadParams),
\* writer.on('error', ...), part.pipe(writer). For an invalid name upload
\* returns writeStreamError and schedules its 'error'.
CuHandlePart(u) ==
  /\ cuUp[u].pc = "idle"
  /\ \E valid \in BOOLEAN, body \in CuBodies(u) :
       /\ ~valid => body = <<>>
       /\ cuUp' = [cuUp EXCEPT ![u] = [@ EXCEPT !.pc = "piping", !.valid = valid,
                                                 !.body = body]]
       /\ cuErrStream' = IF valid THEN cuErrStream ELSE Append(cuErrStream, u)
       /\ cuTicks' = IF valid THEN cuTicks ELSE Append(cuTicks, u)
  /\ UNCHANGED <<cuFile, cuRead, cuLast, notCuVars>>

\* part.on('data', ...): the digests are updated, the chunk goes to the writer
CuPartData(u) ==
  /\ cuUp[u].pc = "piping" /\ cuUp[u].piped < Len(cuUp[u].body)
  /\ cuUp' = [cuUp EXCEPT ![u] = [@ EXCEPT !.piped = @ + 1,
                                            !.hashed = @ \o cuUp[u].body[cuUp[u].piped + 1]]]
  /\ UNCHANGED <<cuFile, cuErrStream, cuTicks, cuRead, cuLast, notCuVars>>

\* part.on('end', ...): writer.end() and the digests
CuPartEnd(u) ==
  /\ cuUp[u].pc = "piping" /\ cuUp[u].piped = Len(cuUp[u].body)
  /\ cuUp' = [cuUp EXCEPT ![u] = [@ EXCEPT !.pc = "ended", !.endCalled = TRUE]]
  /\ UNCHANGED <<cuFile, cuErrStream, cuTicks, cuRead, cuLast, notCuVars>>

\* the open of fs.createWriteStream(filePath, {flags: 'w+'}) completes: the
\* file is created or truncated
CuWriterOpened(u) ==
  /\ cuUp[u].pc # "idle" /\ cuUp[u].valid /\ ~cuUp[u].open
  /\ cuUp' = [cuUp EXCEPT ![u] = [@ EXCEPT !.open = TRUE]]
  /\ cuFile' = [exists |-> TRUE, bytes |-> <<>>]
  /\ UNCHANGED <<cuErrStream, cuTicks, cuRead, cuLast, notCuVars>>

\* the write stream writes its next chunk to the file
CuWriterWrite(u) ==
  /\ cuUp[u].open /\ cuUp[u].flushed < cuUp[u].piped
  /\ LET chunk == cuUp[u].body[cuUp[u].flushed + 1]
     IN /\ cuFile' = [cuFile EXCEPT !.bytes = WriteAt(@, cuUp[u].pos, chunk)]
        /\ cuUp' = [cuUp EXCEPT ![u] = [@ EXCEPT !.flushed = @ + 1,
                                                  !.pos = @ + Len(chunk)]]
  /\ cuLast' = u
  /\ UNCHANGED <<cuErrStream, cuTicks, cuRead, notCuVars>>

\* the write stream emits 'finish', hence 'success': endFunc, _maybeEnd and
\* the upload's callback with the result
CuWriterSuccess(u) ==
  /\ cuUp[u].pc = "ended" /\ cuUp[u].open
  /\ cuUp[u].flushed = Len(cuUp[u].body)
  /\ cuUp' = [cuUp EXCEPT ![u] = [@ EXCEPT !.pc = "success", !.cbs = Append(@, "ok")]]
  /\ UNCHANGED <<cuFile, cuErrStream, cuTicks, cuRead, cuLast, notCuVars>>

\* the tick of streamError: errStream.emit('error', err) runs every listener
\* of writeStreamError; a listener re-emits on its form, whose listeners
\* issue the cleanup removal and call the upload's callback
CuStreamErrorTick ==
  /\ cuTicks # <<>>
  /\ cuUp' = [l \in 1..2 |->
       LET n == Cardinality({i \in 1..Len(cuErrStream) : cuErrStream[i] = l})
           own == IF l = Head(cuTicks) THEN 1 ELSE 0
       IN [cuUp[l] EXCEPT !.own = @ + own, !.errs = @ + n, !.removes = @ + n,
                          !.cbs = @ \o [i \in 1..n |-> "err"]]]
  /\ cuTicks' = Tail(cuTicks)
  /\ UNCHANGED <<cuFile, cuErrStream, cuRead, cuLast, notCuVars>>

\* a download of the object without Range: the read stream opens
CuReadOpen ==
  /\ cuRead.pc = "idle"
  /\ cuRead' = [cuRead EXCEPT
       !.pc = IF cuFile.exists THEN "reading" ELSE "error",
       !.after = {u \in 1..2 : cuUp[u].pc = "success"}]
  /\ UNCHANGED <<cuUp, cuFile, cuErrStream, cuTicks, cuLast, notCuVars>>

\* reader.pipe(res): the next byte of the file
CuReadData ==
  /\ cuRead.pc = "reading" /\ cuRead.pos < Len(cuFile.bytes)
  /\ cuRead' = [cuRead EXCEPT !.pos = @ + 1,
                               !.bytes = Append(@, cuFile.bytes[cuRead.pos + 1])]
  /\ UNCHANGED <<cuUp, cuFile, cuErrStream, cuTicks, cuLast, notCuVars>>

\* the read stream reaches the end of the file
CuReadEnd ==
  /\ cuRead.pc = "reading" /\ cuRead.pos >= Len(cuFile.bytes)
  /\ cuRead' = [cuRead EXCEPT !.pc = "ended"]
  /\ UNCHANGED <<cuUp, cuFile, cuErrStream, cuTicks, cuLast, notCuVars>>

InitShared ==
  /\ NameIdle
  /\ FsIdle
  /\ UpIdle
  /\ DlIdle
  /\ cuUp = <<NoUpload, NoUpload>>
  /\ cuFile = NoObject
  /\ cuErrStream = <<>>
  /\ cuTicks = <<>>
  /\ cuRead = NoRead
  /\ cuLast = 0

NextShared ==
  \/ \E u \in 1..2 : CuHandlePart(u)
  \/ \E u \in 1..2 : CuPartData(u)
  \/ \E u \in 1..2 : CuPartEnd(u)
  \/ \E u \in 1..2 : CuWriterOpened(u)
  \/ \E u \in 1..2 : CuWriterWrite(u)
  \/ \E u \in 1..2 : CuWriterSuccess(u)
  \/ CuStreamErrorTick
  \/ CuReadOpen
  \/ CuReadData
  \/ CuReadEnd

SpecShared == InitShared /\ [][NextShared]_vars

\* the other of the two uploads
Other(u) == 3 - u

\* C24: when an upload that alone has stored the object has succeeded, a
\* download opened afterwards streams the concatenation of the chunks of its
\* part, and the digests of its File record are taken over those bytes.
C24_RoundTrip ==
  \A u \in 1..2 :
    (cuUp[u].pc = "success" /\ ~cuUp[Other(u)].open) =>
      /\ cuUp[u].hashed = Concat(cuUp[u].body, Len(cuUp[u].body))
      /\ cuFile.exists /\ cuFile.bytes = Concat(cuUp[u].body, Len(cuUp[u].body))
      /\ (u \in cuRead.after /\ cuRead.pc # "idle") =>
           /\ cuRead.pc \in {"reading", "ended"}
           /\ cuRead.bytes = SubSeq(cuFile.bytes, 1, cuRead.pos)
           /\ cuRead.pc = "ended" => cuRead.bytes = Concat(cuUp[u].body, Len(cuUp[u].body))

\* a part of two chunks was uploaded and then downloaded
C24_Witness ==
  /\ cuUp[1].pc = "success" /\ cuUp[1].body = <<<<"p">>, <<"q">>>>
  /\ ~cuUp[2].open
  /\ 1 \in cuRead.after /\ cuRead.pc = "ended"
  /\ cuRead.bytes = <<"p", "q">>

\* C25: when both uploads have written the object and both have succeeded,
\* the object is the complete content of the upload that wrote last.
C25_LastWriterWins ==
  (/\ cuUp[1].pc = "success" /\ cuUp[2].pc = "success"
   /\ cuUp[1].body # <<>> /\ cuUp[2].body # <<>>) =>
     cuFile.bytes = Concat(cuUp[cuLast].body, Len(cuUp[cuLast].body))

\* C26: the 'error' of writeStreamError for one upload's invalid name runs
\* the error handler, the cleanup removal and the callback of that upload
\* only: each upload sees as many of them as errors were signalled for it.
C26_ErrorOnlyToItsUpload ==
  \A u \in 1..2 :
    /\ cuUp[u].errs = cuUp[u].own
    /\ cuUp[u].removes = cuUp[u].own
    /\ Len(SelectSeq(cuUp[u].cbs, LAMBDA c : c = "err")) = cuUp[u].own

(***************************************************************************)
(* Download handler: the headers of a partial response                     *)
(***************************************************************************)
\* C31: once a response has the status 206 its Content-Length is a number,
\* not negative, and the end of its Content-Range is a number not beyond
\* the last byte of the file; when the read stream has ended without error
\* the bytes it delivered are as many as Content-Length declared.
C31_ContentLengthIsBytesDelivered ==
  dlRes.status = "206" =>
    /\ ~dlRes.contentLength.nan /\ ~dlRes.contentLength.undef
    /\ dlRes.contentLength.n >= 0
    /\ ~dlRes.contentRange[2].nan /\ ~dlRes.contentRange[2].undef
    /\ dlRes.contentRange[2].n <= DlSize - 1
    /\ (dlReader.ended /\ ~dlReader.errored) =>
         Len(dlRes.body) = dlRes.contentLength.n
====
